---- MODULE Spec2Model ----
(***************************************************************************)
(* Model of the NORMALIZE phase (src/src/parsers/normalize.py): the value  *)
(* coercion, the identifier policy and the nine extraction functions run   *)
(* by run_normalize_pipeline over the relay list of one XML document; and  *)
(* of the LOAD phase (src/src/parsers/load.py), which inserts the files of *)
(* the NORMALIZE phase into the tables of the database.                    *)
(*                                                                         *)
(* Python text is a sequence of one-character strings, so that formatting  *)
(* an identifier is concatenation and parsing a number reads characters.   *)
(* None is the one-element sequence <<"None">>, which no text equals       *)
(* because every element of a text stands for a single character.          *)
(***************************************************************************)
EXTENDS Integers, Sequences, FiniteSets, TLC

VARIABLES
    xml,        \* the parsed document handed to the pass (load_xml's result)
    relays,     \* relay list of the running pass (get_relays_list's result)
    pc,         \* position of run_normalize_pipeline
    pass,       \* number of passes started in this process
    counters,   \* _ID_COUNTERS, process-wide
    tables,     \* the DataFrames built by the running pass, by CSV name
    csv,        \* the files of output/norm_csv, by CSV name
    prev,       \* the DataFrames of the previous completed pass
    sf_arg,     \* argument of a direct safe_float call
    sf_ret,     \* its result
    log,        \* the lines printed by log_info, log_ok and log_error
    db,         \* the rows of the database tables, by table name, in insertion order
    load_at,    \* position of run_load_pipeline in TABLE_LOAD_ORDER (0: not running)
    runs,       \* number of load runs started
    rejected,   \* the tables whose INSERT statement the database refuses
    attempted,  \* the tables load_table_from_csv was called for in the running load
    snap        \* the files of the last two load runs and the database before the last

loadvars == <<db, load_at, runs, rejected, attempted, snap>>

vars == <<xml, relays, pc, pass, counters, tables, csv, prev, sf_arg, sf_ret, log,
          db, load_at, runs, rejected, attempted, snap>>

(***************************************************************************)
(* Python values                                                           *)
(***************************************************************************)
None == <<"None">>

\* bool(s) of an Optional[str]
Truthy(s) == s # None /\ s # <<>>

\* str(s) inside an f-string: None prints as the text None
Str(s) == IF s = None THEN <<"N", "o", "n", "e">> ELSE s

\* a or b, on Optional[str]
Or(a, b) == IF Truthy(a) THEN a ELSE b

Digits == <<"0", "1", "2", "3", "4", "5", "6", "7", "8", "9">>

IsDigit(c) == \E i \in 1..Len(Digits) : Digits[i] = c

DigitVal(c) == (CHOOSE i \in 1..Len(Digits) : Digits[i] = c) - 1

RECURSIVE Dec(_)
Dec(n) == IF n < 10 THEN <<Digits[n + 1]>>
          ELSE Dec(n \div 10) \o <<Digits[(n % 10) + 1]>>

RECURSIVE ZFill(_, _)
ZFill(s, w) == IF Len(s) >= w THEN s ELSE ZFill(<<"0">> \o s, w)

\* format(n, "0<w>d") for n >= 0
Fmt(n, w) == ZFill(Dec(n), w)

UpperLetters == <<"A", "B", "C", "D", "E", "F", "G", "H", "I", "J", "K", "L", "M",
                  "N", "O", "P", "Q", "R", "S", "T", "U", "V", "W", "X", "Y", "Z">>

LowerLetters == <<"a", "b", "c", "d", "e", "f", "g", "h", "i", "j", "k", "l", "m",
                  "n", "o", "p", "q", "r", "s", "t", "u", "v", "w", "x", "y", "z">>

\* str.lower(), one character
LowerChar(c) ==
    IF \E i \in 1..Len(UpperLetters) : UpperLetters[i] = c
    THEN LowerLetters[CHOOSE i \in 1..Len(UpperLetters) : UpperLetters[i] = c]
    ELSE c

Lower(s) == [i \in 1..Len(s) |-> LowerChar(s[i])]

RECURSIVE LStrip(_)
LStrip(s) == IF s # <<>> /\ Head(s) = " " THEN LStrip(Tail(s)) ELSE s

RECURSIVE RStrip(_)
RStrip(s) == IF s # <<>> /\ s[Len(s)] = " " THEN RStrip(SubSeq(s, 1, Len(s) - 1)) ELSE s

\* str.strip()
Strip(s) == RStrip(LStrip(s))

(***************************************************************************)
(* Floats.  A float is none (Python None), a finite number n/d in lowest   *)
(* terms, an infinity (n is its sign) or a NaN.                            *)
(***************************************************************************)
RECURSIVE Gcd(_, _)
Gcd(a, b) == IF b = 0 THEN a ELSE Gcd(b, a % b)

Abs(n) == IF n < 0 THEN -n ELSE n

FNone == [k |-> "none", n |-> 0, d |-> 1]
FNaN == [k |-> "nan", n |-> 0, d |-> 1]
FInf(sign) == [k |-> "inf", n |-> sign, d |-> 1]
FNum(n, d) == LET g == Gcd(Abs(n), d)
              IN  [k |-> "num", n |-> n \div g, d |-> d \div g]

\* bool(x) of an Optional[float]: None and zero are false, NaN and infinities true
FTruthy(x) == x.k \in {"nan", "inf"} \/ (x.k = "num" /\ x.n # 0)

Sign(n) == IF n < 0 THEN -1 ELSE IF n > 0 THEN 1 ELSE 0

\* a / b on floats with b non-zero
FDiv(a, b) ==
    CASE a.k = "nan" \/ b.k = "nan" -> FNaN
      [] a.k = "inf" /\ b.k = "inf" -> FNaN
      [] a.k = "inf" -> FInf(a.n * Sign(b.n))
      [] b.k = "inf" -> FNum(0, 1)
      [] OTHER -> FNum(a.n * b.d * Sign(b.n), a.d * Abs(b.n))

RECURSIVE Pow10(_)
Pow10(e) == IF e = 0 THEN 1 ELSE 10 * Pow10(e - 1)

RECURSIVE DigitsVal(_)
DigitsVal(s) == IF s = <<>> THEN 0
                ELSE 10 * DigitsVal(SubSeq(s, 1, Len(s) - 1)) + DigitVal(s[Len(s)])

Dots(s) == {i \in 1..Len(s) : s[i] = "."}

\* the decimal literals float() accepts among texts without exponent or underscore:
\* digits with at most one point and at least one digit
IsDecimalBody(s) ==
    /\ \A i \in 1..Len(s) : IsDigit(s[i]) \/ s[i] = "."
    /\ Cardinality(Dots(s)) <= 1
    /\ \E i \in 1..Len(s) : IsDigit(s[i])

DecimalBodyVal(s) ==
    IF Dots(s) = {} THEN FNum(DigitsVal(s), 1)
    ELSE LET p == CHOOSE i \in Dots(s) : TRUE
         IN  FNum(DigitsVal(SubSeq(s, 1, p - 1) \o SubSeq(s, p + 1, Len(s))),
                  Pow10(Len(s) - p))

FNeg(x) == [x EXCEPT !.n = -x.n]

ValueError == [k |-> "ValueError", n |-> 0, d |-> 1]

\* float(text) of the Python runtime on a stripped text: an optional sign, then
\* inf / infinity / nan in any letter case, or a decimal literal
PyFloat(text) ==
    LET signed == text # <<>> /\ Head(text) \in {"+", "-"}
        neg == text # <<>> /\ Head(text) = "-"
        body == IF signed THEN Tail(text) ELSE text
        low == Lower(body)
        val == CASE low = <<"i", "n", "f">> -> FInf(1)
                 [] low = <<"i", "n", "f", "i", "n", "i", "t", "y">> -> FInf(1)
                 [] low = <<"n", "a", "n">> -> FNaN
                 [] IsDecimalBody(body) -> DecimalBodyVal(body)
                 [] OTHER -> ValueError
    IN  IF val.k \in {"num", "inf"} /\ neg THEN FNeg(val) ELSE val

\* a Python value passed to safe_float: None, a text, or an int/float
PyNone == [t |-> "none", s |-> <<>>, x |-> FNone]
PyStr(s) == [t |-> "str", s |-> s, x |-> FNone]
PyNum(x) == [t |-> "num", s |-> <<>>, x |-> x]

\* the Optional[str] an attribute lookup returns, as a Python value
Opt(v) == IF v = None THEN PyNone ELSE PyStr(v)

\* the character U+221E (the infinity sign), which a TLA+ string cannot hold
InfSign == "U221E"

InfLiterals ==
    { <<InfSign>>, <<"+", InfSign>>, <<"-", InfSign>>,
      <<"i", "n", "f">>, <<"+", "i", "n", "f">>, <<"-", "i", "n", "f">> }

safe_float(value) ==
    IF value.t = "none" THEN FNone
    ELSE IF value.t = "num" THEN value.x
    ELSE LET text == Strip(value.s)
         IN  IF text = <<>> \/ Lower(text) = <<"n", "a", "n">> THEN FNone
             ELSE IF text \in InfLiterals THEN FNone
             ELSE LET f == PyFloat(text)
                  IN  IF f = ValueError THEN FNone ELSE f

(***************************************************************************)
(* The parsed document.  xmltodict yields None (an element with neither    *)
(* attribute nor content), a text, a dict or a list.  A dict maps "@name"  *)
(* keys to attribute texts and element names to child nodes; the Settings  *)
(* block and its parameter blocks, whose keys the code reads as text and   *)
(* in document order, are dicts kept as ordered items with text keys.      *)
(***************************************************************************)
NoneV == [t |-> "none"]
Txt(s) == [t |-> "str", s |-> s]
DictN(d) == [t |-> "dict", d |-> d]
ODict(items) == [t |-> "odict", items |-> items]
ListN(xs) == [t |-> "list", xs |-> xs]

\* isinstance(node, dict)
IsDict(node) == node.t \in {"dict", "odict"}

\* bool(node)
Falsy(node) ==
    \/ node.t = "none"
    \/ node.t = "str" /\ node.s = <<>>
    \/ node.t = "list" /\ node.xs = <<>>
    \/ node.t = "dict" /\ DOMAIN node.d = {}
    \/ node.t = "odict" /\ node.items = <<>>

\* key in node, for a dict
Has(node, key) == key \in DOMAIN node.d

\* node.get("@name") for a dict: the attribute's text or None
A(node, key) == IF Has(node, key) THEN node.d[key] ELSE None

\* node.get("Name") for a dict: the child node or None
C(node, key) == IF Has(node, key) THEN node.d[key] ELSE NoneV

ensure_list(obj) ==
    IF obj.t = "none" THEN <<>>
    ELSE IF obj.t = "list" THEN obj.xs
    ELSE <<obj>>

\* lookups in an ordered dict with text keys
OHas(node, key) == \E i \in 1..Len(node.items) : node.items[i].k = key

OGet(node, key) == node.items[CHOOSE i \in 1..Len(node.items) : node.items[i].k = key].v

\* sub in text, for texts
Contains(text, sub) ==
    \E i \in 1..(Len(text) - Len(sub) + 1) : SubSeq(text, i, i + Len(sub) - 1) = sub

CurveKey == <<"C", "u", "r", "v", "e">>

(***************************************************************************)
(* Identifier policy                                                       *)
(***************************************************************************)
CounterKinds == {"VT", "SETTING", "CURVE", "POINT", "PARAM", "SEL"}

ZeroCounters == [k \in CounterKinds |-> 0]

\* _next_counter(kind): the counters after the call; the value returned is ctr'[kind]
next_counter(ctr, kind) == [ctr EXCEPT ![kind] = @ + 1]

\* an identifier together with the counters its making leaves behind
make_vt_id(ctr, relay_id, vt_xml_id, idx) ==
    IF Truthy(vt_xml_id) THEN [id |-> vt_xml_id, ctr |-> ctr]
    ELSE IF Truthy(relay_id)
         THEN [id |-> <<"V", "T", "-">> \o Str(relay_id) \o <<"-">> \o Fmt(idx, 2),
               ctr |-> ctr]
    ELSE LET c == next_counter(ctr, "VT")
         IN  [id |-> <<"V", "T", "-", "A", "U", "T", "O", "-">> \o Fmt(c["VT"], 6),
              ctr |-> c]

make_curve_id(ctr, relay_id, func_id, curve_xml_id, idx) ==
    IF Truthy(curve_xml_id) THEN [id |-> curve_xml_id, ctr |-> ctr]
    ELSE IF Truthy(relay_id) /\ Truthy(func_id)
         THEN [id |-> <<"C", "U", "R", "-">> \o Str(relay_id) \o <<"-">>
                        \o Str(func_id) \o <<"-">> \o Fmt(idx, 2),
               ctr |-> ctr]
    ELSE LET c == next_counter(ctr, "CURVE")
         IN  [id |-> <<"C", "U", "R", "-", "A", "U", "T", "O", "-">> \o Fmt(c["CURVE"], 6),
              ctr |-> c]

make_point_id(curve_id, idx) ==
    <<"P", "T", "-">> \o Str(curve_id) \o <<"-">> \o Fmt(idx, 3)

make_setting_id(relay_id, func_id) ==
    <<"S", "E", "T", "-">> \o Str(relay_id) \o <<"-">> \o Str(func_id)

make_parameter_id(relay_id, idx) ==
    <<"P", "A", "R", "-">> \o Str(relay_id) \o <<"-">> \o Fmt(idx, 3)

\* the selectivity key, were the direction code left out of it
make_selectivity_id_without_direction(relay_id, func_id, direction, idx) ==
    <<"S", "E", "L", "-">> \o Str(relay_id) \o <<"-">> \o Str(func_id)
      \o <<"-">> \o Fmt(idx, 3)

\* direction is "Downstream" or "Upstream" at both call sites
make_selectivity_id(relay_id, func_id, direction, idx) ==
    LET dir_code == IF direction = "Downstream" THEN "D" ELSE "U"
    IN  <<"S", "E", "L", "-">> \o Str(relay_id) \o <<"-">> \o Str(func_id)
          \o <<"-", dir_code, "-">> \o Fmt(idx, 3)

\* the synthetic CT key, were the position written with three digits
ct_synthetic_id_three_digits(relay_id, idx) ==
    <<"C", "T", "-">> \o Str(relay_id) \o <<"-">> \o Fmt(idx, 3)

\* f"CT-{relay_id}-{idx:02d}"
ct_synthetic_id(relay_id, idx) ==
    <<"C", "T", "-">> \o Str(relay_id) \o <<"-">> \o Fmt(idx, 2)

(***************************************************************************)
(* Extraction.  The state of a running extraction function: the rows built *)
(* so far, the process counters, and whether an exception has ended it.    *)
(***************************************************************************)
Begin(ctr) == [ok |-> TRUE, rows |-> <<>>, ctr |-> ctr]

Raise(st) == [st EXCEPT !.ok = FALSE]

Emit(st, row) == [st EXCEPT !.rows = Append(@, row)]

relay_core_row(relay) ==
    [ relay_id |-> A(relay, "@id"),
      manufacturer |-> A(relay, "@manufacturer"),
      model |-> A(relay, "@model"),
      frequency_hz |-> safe_float(Opt(A(relay, "@frequencyHz"))) ]

\* normalize_relays_core's loop, were it to skip a relay without @id
core_relay_skipping_unnamed(relay, st) ==
    IF ~IsDict(relay) THEN Raise(st)
    ELSE IF ~Truthy(A(relay, "@id")) THEN st
    ELSE Emit(st, relay_core_row(relay))

\* one iteration of normalize_relays_core's loop
core_relay(relay, st) ==
    IF ~IsDict(relay) THEN Raise(st) ELSE Emit(st, relay_core_row(relay))

\* the ratio of a CT from its coerced currents; the division cannot raise,
\* because a zero secondary is false
ct_ratio(primary, secondary) ==
    IF FTruthy(primary) /\ FTruthy(secondary) THEN FDiv(primary, secondary) ELSE FNone

ct_row(relay_id, ct, idx) ==
    LET primary == safe_float(Opt(A(ct, "@primaryA")))
        secondary == safe_float(Opt(A(ct, "@secondaryA")))
    IN  [ relay_id |-> relay_id,
          ct_id |-> Or(A(ct, "@id"), ct_synthetic_id(relay_id, idx)),
          location |-> A(ct, "@location"),
          primary_a |-> primary,
          secondary_a |-> secondary,
          ratio |-> ct_ratio(primary, secondary),
          burden_va |-> safe_float(Opt(A(ct, "@burdenVA"))) ]

RECURSIVE ct_loop(_, _, _, _)
ct_loop(relay_id, cts, idx, st) ==
    IF idx > Len(cts) THEN st
    ELSE ct_loop(relay_id, cts, idx + 1,
                 IF IsDict(cts[idx]) THEN Emit(st, ct_row(relay_id, cts[idx], idx)) ELSE st)

\* one iteration of normalize_cts's loop over the relays
cts_relay(relay, st) ==
    IF ~IsDict(relay) THEN Raise(st)
    ELSE LET cts_block == C(relay, "CTs")
         IN  IF Falsy(cts_block) THEN st
             ELSE IF ~IsDict(cts_block) THEN Raise(st)
             ELSE ct_loop(A(relay, "@id"), ensure_list(C(cts_block, "CT")), 1, st)

vt_row(relay_id, vt_id, vt, vt_defined, vt_enabled) ==
    [ relay_id |-> relay_id,
      vt_id |-> vt_id,
      location |-> A(vt, "@location"),
      primary_kv |-> safe_float(Opt(A(vt, "@primaryKV"))),
      secondary_v |-> safe_float(Opt(A(vt, "@secondaryV"))),
      vt_defined |-> vt_defined,
      vt_enabled |-> vt_enabled ]

\* the row of a VTs block that holds flags only
vt_flags_row(relay_id, vt_id, vt_defined, vt_enabled) ==
    [ relay_id |-> relay_id,
      vt_id |-> vt_id,
      location |-> None,
      primary_kv |-> FNone,
      secondary_v |-> FNone,
      vt_defined |-> vt_defined,
      vt_enabled |-> vt_enabled ]

RECURSIVE vt_loop(_, _, _, _, _, _)
vt_loop(relay_id, vts, vt_defined, vt_enabled, idx, st) ==
    IF idx > Len(vts) THEN st
    ELSE IF ~IsDict(vts[idx]) THEN vt_loop(relay_id, vts, vt_defined, vt_enabled, idx + 1, st)
    ELSE LET m == make_vt_id(st.ctr, relay_id, A(vts[idx], "@id"), idx)
             row == vt_row(relay_id, m.id, vts[idx], vt_defined, vt_enabled)
         IN  vt_loop(relay_id, vts, vt_defined, vt_enabled, idx + 1,
                     Emit([st EXCEPT !.ctr = m.ctr], row))

\* one iteration of normalize_vts's loop over the relays
vts_relay(relay, st) ==
    IF ~IsDict(relay) THEN Raise(st)
    ELSE LET relay_id == A(relay, "@id")
             vts_block == C(relay, "VTs")
         IN  IF Falsy(vts_block) THEN st
             ELSE IF ~IsDict(vts_block) THEN Raise(st)
             ELSE LET vt_defined == A(vts_block, "@vtDefined")
                      vt_enabled == A(vts_block, "@vtEnabled")
                      vt_nodes == C(vts_block, "VT")
                  IN  IF vt_nodes.t = "none"
                      THEN LET m == make_vt_id(st.ctr, relay_id, None, 1)
                           IN  Emit([st EXCEPT !.ctr = m.ctr],
                                    vt_flags_row(relay_id, m.id, vt_defined, vt_enabled))
                      ELSE vt_loop(relay_id, ensure_list(vt_nodes),
                                   vt_defined, vt_enabled, 1, st)

function_row(relay_id, func) ==
    [ relay_id |-> relay_id,
      function_id |-> A(func, "@id"),
      name |-> A(func, "@name"),
      ansi_code |-> A(func, "@ansiCode"),
      enabled |-> A(func, "@enabled") ]

(***************************************************************************)
(* Function settings, aggregated by function                              *)
(***************************************************************************)
\* str(node) of a settings child that is no dict; the repr of a list is not modelled
NodeStr(node) ==
    CASE node.t = "str" -> node.s
      [] node.t = "none" -> <<"N", "o", "n", "e">>
      [] OTHER -> <<"[", "]">>

RECURSIVE LStripAt(_)
LStripAt(s) == IF s # <<>> /\ Head(s) = "@" THEN LStripAt(Tail(s)) ELSE s

Triple(parameter, attribute, value) ==
    [parameter |-> parameter, attribute |-> attribute, value |-> value]

\* the inner loop of _collect_raw_settings_for_function over one parameter block
RECURSIVE collect_attrs(_, _, _)
collect_attrs(key, items, i) ==
    IF i > Len(items) THEN <<>>
    ELSE (IF items[i].k # <<>> /\ Head(items[i].k) = "@"
          THEN <<Triple(key, LStripAt(items[i].k), items[i].v.s)>>
          ELSE <<>>) \o collect_attrs(key, items, i + 1)

RECURSIVE collect_items(_, _)
collect_items(items, i) ==
    IF i > Len(items) THEN <<>>
    ELSE LET key == items[i].k
             node == items[i].v
         IN  (IF key = CurveKey THEN <<>>
              ELSE IF ~IsDict(node)
                   THEN <<Triple(key, <<"_", "t", "e", "x", "t">>, NodeStr(node))>>
              ELSE collect_attrs(key, node.items, 1))
             \o collect_items(items, i + 1)

\* the raw triples of a function, or the exception of calling items() on a
\* settings node that is no dict
collect_raw_settings_for_function(func) ==
    LET settings == C(func, "Settings")
    IN  IF Falsy(settings) THEN [ok |-> TRUE, rows |-> <<>>]
        ELSE IF ~IsDict(settings) THEN [ok |-> FALSE, rows |-> <<>>]
        ELSE [ok |-> TRUE, rows |-> collect_items(settings.items, 1)]

\* d[key] = value on an insertion-ordered dict kept as items
DictSet(items, key, value) ==
    IF \E i \in 1..Len(items) : items[i].k = key
    THEN [i \in 1..Len(items) |->
            IF items[i].k = key THEN [k |-> key, v |-> value] ELSE items[i]]
    ELSE Append(items, [k |-> key, v |-> value])

DictGet(items, key) == items[CHOOSE i \in 1..Len(items) : items[i].k = key].v

DictHas(items, key) == \E i \in 1..Len(items) : items[i].k = key

\* by_param.setdefault(param, []).append({attribute, value}) over the raw triples
RECURSIVE group_by_param(_, _, _)
group_by_param(raw, i, by_param) ==
    IF i > Len(raw) THEN by_param
    ELSE LET item == [attribute |-> raw[i].attribute, value |-> raw[i].value]
             old == IF DictHas(by_param, raw[i].parameter)
                    THEN DictGet(by_param, raw[i].parameter) ELSE <<>>
         IN  group_by_param(raw, i + 1,
                            DictSet(by_param, raw[i].parameter, Append(old, item)))

PickupPuNames ==
    { <<"p", "i", "c", "k", "u", "p", "p", "e", "r", "u", "n", "i", "t">>,
      <<"p", "i", "c", "k", "u", "p", "_", "p", "e", "r", "_", "u", "n", "i", "t">>,
      <<"p", "i", "c", "k", "u", "p", "_", "p", "u">> }

PickupANames ==
    { <<"p", "i", "c", "k", "u", "p", "a", "m", "p", "s">>,
      <<"p", "i", "c", "k", "u", "p", "_", "a">>,
      <<"p", "i", "c", "k", "u", "p", "_", "c", "u", "r", "r", "e", "n", "t">> }

TimeDialNames ==
    { <<"t", "i", "m", "e", "d", "i", "a", "l">>,
      <<"t", "i", "m", "e", "_", "d", "i", "a", "l">> }

MinTimeNames ==
    { <<"m", "i", "n", "t", "i", "m", "e", "s", "e", "c", "o", "n", "d", "s">>,
      <<"m", "i", "n", "_", "t", "i", "m", "e", "_", "s", "e", "c", "o", "n", "d", "s">>,
      <<"m", "i", "n", "_", "t", "i", "m", "e">> }

ThermalConstantNames ==
    { <<"t", "h", "e", "r", "m", "a", "l", "c", "o", "n", "s", "t", "a", "n", "t">>,
      <<"t", "h", "e", "r", "m", "a", "l", "_", "c", "o", "n", "s", "t", "a", "n", "t">> }

FullLoadCurrentNames ==
    { <<"f", "u", "l", "l", "l", "o", "a", "d", "c", "u", "r", "r", "e", "n", "t">>,
      <<"f", "u", "l", "l", "_", "l", "o", "a", "d", "_", "c", "u", "r", "r", "e", "n", "t">>,
      <<"f", "l", "a">> }

TripClassNames ==
    { <<"t", "r", "i", "p", "c", "l", "a", "s", "s">>,
      <<"t", "r", "i", "p", "_", "c", "l", "a", "s", "s">> }

\* the canonical column a parameter name feeds, "" when it feeds none
canonical_column(param_name) ==
    LET pname_lower == Lower(param_name)
    IN  CASE pname_lower \in PickupPuNames -> "pickup_pu"
          [] pname_lower \in PickupANames -> "pickup_a"
          [] pname_lower \in TimeDialNames -> "time_dial"
          [] pname_lower \in MinTimeNames -> "min_time_seconds"
          [] pname_lower \in ThermalConstantNames -> "thermal_constant"
          [] pname_lower \in FullLoadCurrentNames -> "full_load_current"
          [] pname_lower \in TripClassNames -> "trip_class"
          [] OTHER -> ""

\* f"{param_name}.{attribute}"
extra_key(param_name, attribute) == param_name \o <<".">> \o attribute

EmptySetting ==
    [ pickup_pu |-> FNone, pickup_a |-> FNone, time_dial |-> FNone,
      min_time_seconds |-> FNone, thermal_constant |-> FNone,
      full_load_current |-> FNone, trip_class |-> FNone, extra |-> <<>> ]

\* an aggregation in which only the attribute named value feeds a column
aggregate_item_value_only(acc, param_name, item) ==
    LET col == canonical_column(param_name)
        withExtra == [acc EXCEPT !.extra =
                        DictSet(@, extra_key(param_name, item.attribute), item.value)]
    IN  IF col = "" \/ item.attribute # <<"v", "a", "l", "u", "e">> THEN withExtra
        ELSE [withExtra EXCEPT ![col] = safe_float(PyStr(item.value))]

\* the body of the aggregation loop for one {attribute, value} of one parameter
aggregate_item(acc, param_name, item) ==
    LET col == canonical_column(param_name)
        withExtra == [acc EXCEPT !.extra =
                        DictSet(@, extra_key(param_name, item.attribute), item.value)]
    IN  IF col = "" THEN withExtra
        ELSE [withExtra EXCEPT ![col] = safe_float(PyStr(item.value))]

RECURSIVE aggregate_items(_, _, _, _)
aggregate_items(acc, param_name, items, j) ==
    IF j > Len(items) THEN acc
    ELSE aggregate_items(aggregate_item(acc, param_name, items[j]), param_name, items, j + 1)

RECURSIVE aggregate(_, _, _)
aggregate(acc, by_param, i) ==
    IF i > Len(by_param) THEN acc
    ELSE aggregate(aggregate_items(acc, by_param[i].k, by_param[i].v, 1), by_param, i + 1)

\* json.dumps(extra) if extra else None: the dumped text is the items in order,
\* and no items stand for None
extra_json(extra) == extra

setting_row(relay_id, func_id, raw_settings) ==
    LET agg == aggregate(EmptySetting, group_by_param(raw_settings, 1, <<>>), 1)
    IN  [ setting_id |-> make_setting_id(relay_id, func_id),
          function_id |-> func_id,
          pickup_pu |-> agg.pickup_pu,
          pickup_a |-> agg.pickup_a,
          time_dial |-> agg.time_dial,
          min_time_seconds |-> agg.min_time_seconds,
          thermal_constant |-> agg.thermal_constant,
          full_load_current |-> agg.full_load_current,
          trip_class |-> agg.trip_class,
          extra_json |-> extra_json(agg.extra) ]

\* the function id the settings rows carry
settings_func_id(func) == Or(A(func, "@id"), <<>>)

\* the body of the loop, were it to emit a row for a function without a raw triple
settings_func_emitting_empty(relay_id, func, st) ==
    LET raw == collect_raw_settings_for_function(func)
    IN  IF ~raw.ok THEN Raise(st)
        ELSE Emit(st, setting_row(relay_id, settings_func_id(func), raw.rows))

\* the body of normalize_function_settings's loop for one function
settings_func(relay_id, func, st) ==
    LET raw == collect_raw_settings_for_function(func)
    IN  IF ~raw.ok THEN Raise(st)
        ELSE IF raw.rows = <<>> THEN st
        ELSE Emit(st, setting_row(relay_id, settings_func_id(func), raw.rows))

(***************************************************************************)
(* Curves and curve points                                                 *)
(***************************************************************************)
\* the keys of the model's dicts that start with "@"
AttrKeys ==
    { "@id", "@manufacturer", "@model", "@frequencyHz", "@location", "@primaryA",
      "@secondaryA", "@burdenVA", "@primaryKV", "@secondaryV", "@vtDefined",
      "@vtEnabled", "@name", "@ansiCode", "@enabled", "@family", "@type",
      "@standard", "@pickupPU", "@pickupA", "@timeDial", "@minTimeSeconds",
      "@parametric", "@note", "@base", "@multiple", "@current", "@timeSeconds",
      "@group", "@value", "@element", "@seconds" }

\* the attributes normalize_function_curves pops into columns
CurvePopped ==
    { "@family", "@type", "@standard", "@pickupPU", "@pickupA", "@timeDial",
      "@minTimeSeconds", "@parametric" }

\* the candidate curves settings contributes, or the exception of indexing a
\* text or a list with "Curve"
settings_curves(settings) ==
    IF Falsy(settings) THEN [ok |-> TRUE, xs |-> <<>>]
    ELSE IF settings.t = "odict"
         THEN IF OHas(settings, CurveKey)
              THEN [ok |-> TRUE, xs |-> ensure_list(OGet(settings, CurveKey))]
              ELSE [ok |-> TRUE, xs |-> <<>>]
    ELSE IF settings.t = "str"
         THEN [ok |-> ~Contains(settings.s, CurveKey), xs |-> <<>>]
    ELSE [ok |-> ~\E i \in 1..Len(settings.xs) : settings.xs[i] = Txt(CurveKey),
          xs |-> <<>>]

\* curves_nodes, were the function's own curves put before the settings' curves
curves_nodes_own_first(func) ==
    LET fromSettings == settings_curves(C(func, "Settings"))
        own == IF Has(func, "Curve") THEN ensure_list(func.d["Curve"]) ELSE <<>>
    IN  [ok |-> fromSettings.ok, xs |-> own \o fromSettings.xs]

\* curves_nodes of a function: the settings' curves, then the function's own
curves_nodes(func) ==
    LET fromSettings == settings_curves(C(func, "Settings"))
        own == IF Has(func, "Curve") THEN ensure_list(func.d["Curve"]) ELSE <<>>
    IN  [ok |-> fromSettings.ok, xs |-> fromSettings.xs \o own]

parse_parametric(raw) ==
    IF raw = None THEN "None"
    ELSE IF Lower(raw) \in {<<"t", "r", "u", "e">>, <<"1">>, <<"y", "e", "s">>} THEN "True"
    ELSE IF Lower(raw) \in {<<"f", "a", "l", "s", "e">>, <<"0">>, <<"n", "o">>} THEN "False"
    ELSE "None"

\* what is left of attrs after the pops, dumped; the empty map stands for None
curve_extra_json(curve) ==
    LET left == (DOMAIN curve.d \cap AttrKeys) \ CurvePopped
    IN  [k \in left |-> curve.d[k]]

curve_row(curve_id, func_id, curve) ==
    [ curve_id |-> curve_id,
      function_id |-> func_id,
      family |-> A(curve, "@family"),
      type |-> A(curve, "@type"),
      standard |-> A(curve, "@standard"),
      pickup_pu |-> safe_float(Opt(A(curve, "@pickupPU"))),
      pickup_a |-> safe_float(Opt(A(curve, "@pickupA"))),
      time_dial |-> safe_float(Opt(A(curve, "@timeDial"))),
      min_time_sec |-> safe_float(Opt(A(curve, "@minTimeSeconds"))),
      parametric |-> parse_parametric(A(curve, "@parametric")),
      extra_json |-> curve_extra_json(curve) ]

RECURSIVE curve_loop(_, _, _, _, _)
curve_loop(relay_id, func_id, curves, idx, st) ==
    IF idx > Len(curves) THEN st
    ELSE IF ~IsDict(curves[idx]) THEN curve_loop(relay_id, func_id, curves, idx + 1, st)
    ELSE LET m == make_curve_id(st.ctr, relay_id, func_id, A(curves[idx], "@id"), idx)
         IN  curve_loop(relay_id, func_id, curves, idx + 1,
                        Emit([st EXCEPT !.ctr = m.ctr],
                             curve_row(m.id, func_id, curves[idx])))

\* the body of normalize_function_curves's loop for one function
curves_func(relay_id, func, st) ==
    LET nodes == curves_nodes(func)
    IN  IF ~nodes.ok THEN Raise(st)
        ELSE curve_loop(relay_id, A(func, "@id"), nodes.xs, 1, st)

\* the @id of the first candidate curve, as normalize_curve_points reads it
first_curve_xml_id(nodes) ==
    IF nodes # <<>> /\ IsDict(nodes[1]) THEN A(nodes[1], "@id") ELSE None

point_row(curve_id, base, point, idx) ==
    [ point_id |-> make_point_id(curve_id, idx),
      curve_id |-> curve_id,
      base |-> base,
      multiple |-> safe_float(Opt(A(point, "@multiple"))),
      time_seconds |-> safe_float(Opt(A(point, "@timeSeconds"))),
      amps |-> safe_float(Opt(A(point, "@current"))),
      volts |-> None ]

RECURSIVE point_loop(_, _, _, _, _)
point_loop(curve_id, base, points, idx, st) ==
    IF idx > Len(points) THEN st
    ELSE point_loop(curve_id, base, points, idx + 1,
                    IF IsDict(points[idx])
                    THEN Emit(st, point_row(curve_id, base, points[idx], idx))
                    ELSE st)

\* the body of normalize_curve_points's loop for one function: the curve id is
\* made before the CurvePoints block is looked at
points_func(relay_id, func, st) ==
    LET nodes == curves_nodes(func)
    IN  IF ~nodes.ok THEN Raise(st)
        ELSE LET m == make_curve_id(st.ctr, relay_id, A(func, "@id"),
                                    first_curve_xml_id(nodes.xs), 1)
                 st1 == [st EXCEPT !.ctr = m.ctr]
                 cp_block == C(func, "CurvePoints")
             IN  IF Falsy(cp_block) THEN st1
                 ELSE IF ~IsDict(cp_block) THEN Raise(st1)
                 ELSE point_loop(m.id, A(cp_block, "@base"),
                                 ensure_list(C(cp_block, "Point")), 1, st1)

(***************************************************************************)
(* Parameters and selectivity                                              *)
(***************************************************************************)
parameter_row(relay_id, param, idx) ==
    [ parameter_id |-> Or(A(param, "@id"), make_parameter_id(relay_id, idx)),
      relay_id |-> relay_id,
      name |-> A(param, "@name"),
      group_name |-> A(param, "@group"),
      type |-> A(param, "@type"),
      value |-> A(param, "@value") ]

RECURSIVE parameter_loop(_, _, _, _)
parameter_loop(relay_id, params, idx, st) ==
    IF idx > Len(params) THEN st
    ELSE parameter_loop(relay_id, params, idx + 1,
                        IF IsDict(params[idx])
                        THEN Emit(st, parameter_row(relay_id, params[idx], idx))
                        ELSE st)

\* one iteration of normalize_parameters's loop over the relays
parameters_relay(relay, st) ==
    IF ~IsDict(relay) THEN Raise(st)
    ELSE LET params_block == C(relay, "Parameters")
         IN  IF Falsy(params_block) THEN st
             ELSE IF ~IsDict(params_block) THEN Raise(st)
             ELSE parameter_loop(A(relay, "@id"),
                                 ensure_list(C(params_block, "Parameter")), 1, st)

selectivity_row(relay_id, func_id, direction, dev, idx, margin_s) ==
    [ selectivity_id |-> make_selectivity_id(relay_id, func_id, direction, idx),
      function_id |-> func_id,
      upstream_device |-> IF direction = "Upstream" THEN A(dev, "@id") ELSE None,
      downstream_device |-> IF direction = "Downstream" THEN A(dev, "@id") ELSE None,
      element |-> A(dev, "@element"),
      coordination_margin |-> margin_s ]

RECURSIVE device_loop(_, _, _, _, _, _, _)
device_loop(relay_id, func_id, direction, devs, margin_s, idx, st) ==
    IF idx > Len(devs) THEN st
    ELSE device_loop(relay_id, func_id, direction, devs, margin_s, idx + 1,
                     IF IsDict(devs[idx])
                     THEN Emit(st, selectivity_row(relay_id, func_id, direction,
                                                   devs[idx], idx, margin_s))
                     ELSE st)

\* the body of normalize_selectivity's loop for one function
selectivity_func(relay_id, func, st) ==
    LET func_id == A(func, "@id")
        sel_block == C(func, "Selectivity")
    IN  IF Falsy(sel_block) THEN st
        ELSE IF ~IsDict(sel_block) THEN Raise(st)
        ELSE LET margin == IF Has(sel_block, "CoordinationMargin")
                           THEN sel_block.d["CoordinationMargin"]
                           ELSE DictN([k \in {} |-> None])
             IN  IF ~IsDict(margin) THEN Raise(st)
                 ELSE LET margin_s == safe_float(Opt(A(margin, "@seconds")))
                          down == device_loop(relay_id, func_id, "Downstream",
                                      ensure_list(C(sel_block, "DownstreamDevice")),
                                      margin_s, 1, st)
                      IN  device_loop(relay_id, func_id, "Upstream",
                                      ensure_list(C(sel_block, "UpstreamDevice")),
                                      margin_s, 1, down)

(***************************************************************************)
(* The loops over the functions of a relay and over the relays             *)
(***************************************************************************)
TableNames ==
    << "relays_core", "relays_cts", "relays_vts", "relays_functions",
       "relays_function_settings", "relays_curves", "relays_curve_points",
       "relays_parameters", "relays_selectivity" >>

\* the body of the loop over the functions, by the table being built
per_func(name, relay_id, func, st) ==
    CASE name = "relays_functions" -> Emit(st, function_row(relay_id, func))
      [] name = "relays_function_settings" -> settings_func(relay_id, func, st)
      [] name = "relays_curves" -> curves_func(relay_id, func, st)
      [] name = "relays_curve_points" -> points_func(relay_id, func, st)
      [] name = "relays_selectivity" -> selectivity_func(relay_id, func, st)

RECURSIVE func_loop(_, _, _, _, _)
func_loop(name, relay_id, funcs, i, st) ==
    IF i > Len(funcs) \/ ~st.ok THEN st
    ELSE func_loop(name, relay_id, funcs, i + 1,
                   IF IsDict(funcs[i]) THEN per_func(name, relay_id, funcs[i], st) ELSE st)

\* one iteration of the loop over the relays of a function-level extraction
functions_relay(name, relay, st) ==
    IF ~IsDict(relay) THEN Raise(st)
    ELSE LET pf_block == C(relay, "ProtectionFunctions")
         IN  IF Falsy(pf_block) THEN st
             ELSE IF ~IsDict(pf_block) THEN Raise(st)
             ELSE func_loop(name, A(relay, "@id"),
                            ensure_list(C(pf_block, "Function")), 1, st)

per_relay(name, relay, st) ==
    CASE name = "relays_core" -> core_relay(relay, st)
      [] name = "relays_cts" -> cts_relay(relay, st)
      [] name = "relays_vts" -> vts_relay(relay, st)
      [] name = "relays_parameters" -> parameters_relay(relay, st)
      [] OTHER -> functions_relay(name, relay, st)

RECURSIVE relay_loop(_, _, _, _)
relay_loop(name, rs, i, st) ==
    IF i > Len(rs) \/ ~st.ok THEN st
    ELSE relay_loop(name, rs, i + 1, per_relay(name, rs[i], st))

\* normalize_relays_core .. normalize_selectivity, by the table each builds:
\* the rows, the counters left behind, and whether the call returned
normalize(name, rs, ctr) == relay_loop(name, rs, 1, Begin(ctr))

(***************************************************************************)
(* The documents the model runs on                                         *)
(***************************************************************************)
MaxPasses == 2
MaxRelays == 2

EmptyD == [k \in {} |-> None]

\* an attribute of an element; None: the element does not carry it
Attr(key, v) == IF v = None THEN EmptyD ELSE key :> v

R1 == <<"R", "1">>
R2 == <<"R", "2">>
F1 == <<"F", "1">>
F2 == <<"F", "2">>
C1 == <<"C", "1">>
V1 == <<"V", "1">>
K1 == <<"K", "1">>
P1 == <<"P", "1">>
T100 == <<"1", "0", "0">>
T5 == <<"5">>
T0 == <<"0">>
T1p5 == <<"1", ".", "5">>
Tabc == <<"a", "b", "c">>
Ttrue == <<"t", "r", "u", "e">>

CT(id, primary, secondary) ==
    DictN(Attr("@id", id) @@ Attr("@primaryA", primary) @@ Attr("@secondaryA", secondary))

VT(id) == DictN(Attr("@id", id) @@ ("@primaryKV" :> <<"1", "3", ".", "8">>))

Parameter(id) == DictN(Attr("@id", id) @@ ("@name" :> <<"f", "w">>) @@ ("@value" :> T5))

Curve(id) ==
    DictN(Attr("@id", id) @@ ("@family" :> <<"I", "E", "C">>) @@ ("@timeDial" :> T1p5)
          @@ ("@parametric" :> <<"Y", "e", "s">>) @@ ("@note" :> Tabc))

Point(multiple, seconds) == DictN(("@multiple" :> multiple) @@ ("@timeSeconds" :> seconds))

CurvePoints ==
    "CurvePoints" :> DictN(("@base" :> <<"p", "u">>)
                           @@ ("Point" :> ListN(<<Point(T5, T1p5), Point(T100, <<"i", "n", "f">>)>>)))

Device(id) == DictN("@id" :> id)

Selectivity ==
    "Selectivity" :> DictN(("CoordinationMargin" :> DictN("@seconds" :> <<"0", ".", "3">>))
                           @@ ("DownstreamDevice" :> ListN(<<Device(R1), Device(R2)>>))
                           @@ ("UpstreamDevice" :> Device(R2)))

Item(key, value) == [k |-> key, v |-> value]

\* a parameter block of Settings with one attribute
Block1(attribute, text) == ODict(<<Item(<<"@">> \o attribute, Txt(text))>>)

TimeDialKey == <<"T", "i", "m", "e", "D", "i", "a", "l">>
ValueKey == <<"v", "a", "l", "u", "e">>

\* a Settings block with a time dial and a nested curve
SettingsWithCurve(curve) ==
    "Settings" :> ODict(<<Item(TimeDialKey, Block1(ValueKey, T1p5)), Item(CurveKey, curve)>>)

Function(id, content) == DictN(Attr("@id", id) @@ content)

Functions(node) == "ProtectionFunctions" :> DictN("Function" :> node)

\* what a relay holds besides its @id: transformers and parameters, or functions
RelayBodies ==
    { ("CTs" :> DictN("CT" :> ListN(<<CT(None, T100, T5), CT(None, T100, T0)>>)))
        @@ ("VTs" :> DictN("@vtDefined" :> Ttrue))
        @@ ("Parameters" :> DictN("Parameter" :> Parameter(None))),
      ("CTs" :> DictN("CT" :> CT(C1, T5, None)))
        @@ ("VTs" :> DictN(("@vtEnabled" :> Ttrue)
                           @@ ("VT" :> ListN(<<VT(None), Txt(Tabc), VT(V1)>>))))
        @@ ("Parameters" :> DictN("Parameter" :> ListN(<<Parameter(P1), Parameter(None)>>))),
      Functions(ListN(<<Function(F1, CurvePoints),
                        Function(F2, SettingsWithCurve(ListN(<<Txt(Tabc), Curve(None)>>))
                                     @@ ("Curve" :> Curve(K1)) @@ CurvePoints
                                     @@ Selectivity)>>)) }
    \cup
    { Functions(Function(id, SettingsWithCurve(Curve(None)) @@ CurvePoints @@ Selectivity))
        : id \in {None, <<>>} }

RelayNodes ==
    { DictN(Attr("@id", id) @@ body) : id \in {None, R1, R2}, body \in RelayBodies }

RECURSIVE SeqsUpTo(_, _)
SeqsUpTo(S, n) ==
    IF n = 0 THEN {<<>>}
    ELSE LET shorter == SeqsUpTo(S, n - 1)
         IN  shorter \cup {Append(q, x) : q \in {t \in shorter : Len(t) = n - 1}, x \in S}

\* a document around the value of ProtectionDataset/Relays/Relay
Document(relay) ==
    DictN("ProtectionDataset" :> DictN("Relays" :> DictN("Relay" :> relay)))

\* xmltodict gives one Relay element as a bare node, several as a list
GeneralDocs ==
    { Document(IF Len(rs) = 1 THEN rs[1] ELSE ListN(rs))
        : rs \in SeqsUpTo(RelayNodes, MaxRelays) \ {<<>>} }

\* documents without a relay list
NoRelayDocs ==
    { DictN(EmptyD),
      DictN("ProtectionDataset" :> DictN(EmptyD)),
      DictN("ProtectionDataset" :> DictN("Relays" :> DictN(EmptyD))) }

\* one relay with one unnamed CT, over the texts of its two currents
CTDocs ==
    { Document(DictN(("@id" :> R1) @@ ("CTs" :> DictN("CT" :> CT(None, p, s)))))
        : p \in {None, T100, T0, Tabc}, s \in {None, T5, T0} }

MaxSettings == 2

\* the children a Settings block is made of: parameter blocks whose names and
\* attribute names may hold a point, a mapped parameter with a value and a unit,
\* the same parameter under another of its names, an unmapped one, a text child
\* and a nested curve
SettingsItems ==
    { Item(<<"A", ".", "b">>, Block1(<<"c">>, T5)),
      Item(<<"A">>, Block1(<<"b", ".", "c">>, T100)),
      Item(TimeDialKey, ODict(<<Item(<<"@">> \o ValueKey, Txt(T1p5)),
                                Item(<<"@", "u", "n", "i", "t">>, Txt(<<"s">>))>>)),
      Item(<<"t", "i", "m", "e", "_", "d", "i", "a", "l">>, Block1(ValueKey, T5)),
      Item(<<"P", "i", "c", "k", "u", "p", "P", "e", "r", "U", "n", "i", "t">>,
           Block1(ValueKey, <<"1", ".", "2", "5">>)),
      Item(<<"B", "l", "o", "c", "k", "i", "n", "g">>,
           Block1(<<"e", "n", "a", "b", "l", "e", "d">>, Ttrue)),
      Item(<<"f", "l", "a">>, Txt(T100)),
      Item(CurveKey, Curve(None)) }

\* a dict holds a key once
DistinctKeys(items) ==
    \A i, j \in 1..Len(items) : items[i].k = items[j].k => i = j

SettingsBlocks ==
    { ODict(items) : items \in {q \in SeqsUpTo(SettingsItems, MaxSettings) :
                                   q # <<>> /\ DistinctKeys(q)} }

\* one relay with one function, over the Settings blocks
SettingsDocs ==
    { Document(DictN(("@id" :> R1) @@ Functions(Function(F1, "Settings" :> settings))))
        : settings \in SettingsBlocks }

T0p3 == <<"0", ".", "3">>

\* a Selectivity block of one downstream and two upstream devices among children
\* that are an empty element and a text, with the margin element given
SelectivityAmong(margin) ==
    "Selectivity" :> DictN(margin
                           @@ ("DownstreamDevice" :> ListN(<<NoneV, Device(R2)>>))
                           @@ ("UpstreamDevice" :> ListN(<<Device(R1), Txt(Tabc), Device(R2)>>)))

\* what a relay holds when its optional blocks are empty elements or text, or hold
\* repeatable children that are empty elements or text among the structured ones
OddBodies ==
    { ("CTs" :> DictN("CT" :> ListN(<<Txt(Tabc), CT(None, T100, T5), NoneV,
                                      CT(C1, T5, None), CT(None, T5, T5)>>)))
        @@ ("VTs" :> DictN(("@vtEnabled" :> Ttrue)
                           @@ ("VT" :> ListN(<<Txt(Tabc), VT(None), NoneV, VT(V1)>>))))
        @@ ("Parameters" :> DictN("Parameter" :> ListN(<<NoneV, Parameter(None),
                                                        Txt(Tabc), Parameter(P1)>>))),
      "VTs" :> DictN("VT" :> NoneV),
      "VTs" :> DictN("@note" :> Tabc),
      "VTs" :> DictN(("@vtDefined" :> Ttrue) @@ ("VT" :> NoneV)),
      "VTs" :> DictN(("@vtDefined" :> Ttrue) @@ ("VT" :> Txt(Tabc))),
      ("CTs" :> NoneV) @@ ("VTs" :> NoneV) @@ ("Parameters" :> NoneV)
        @@ ("ProtectionFunctions" :> NoneV),
      "CTs" :> Txt(Tabc),
      "VTs" :> Txt(Tabc),
      "Parameters" :> Txt(Tabc),
      "ProtectionFunctions" :> Txt(Tabc),
      Functions(ListN(<<Txt(Tabc),
                        Function(F1, ("Curve" :> ListN(<<Curve(None), Txt(Tabc), Curve(K1)>>))
                                     @@ ("CurvePoints" :>
                                           DictN("Point" :> ListN(<<Txt(Tabc), Point(T5, T1p5),
                                                                    NoneV, Point(T100, T5)>>)))
                                     @@ SelectivityAmong(EmptyD)),
                        NoneV,
                        Function(F2, ("Settings" :> NoneV) @@ ("Curve" :> Txt(Tabc))
                                     @@ ("CurvePoints" :> NoneV) @@ ("Selectivity" :> NoneV))>>)),
      Functions(Function(F1, "Settings" :> Txt(Tabc))),
      Functions(Function(F1, "CurvePoints" :> Txt(Tabc))),
      Functions(Function(F1, "Selectivity" :> Txt(Tabc))),
      Functions(Function(F1, SelectivityAmong("CoordinationMargin" :> NoneV))),
      Functions(Function(F1, SelectivityAmong("CoordinationMargin" :> Txt(T0p3)))) }

\* one relay R1 over the odd bodies, and a document whose root element is text
OddDocs ==
    { Document(DictN(("@id" :> R1) @@ body)) : body \in OddBodies }
    \cup { DictN("ProtectionDataset" :> Txt(Tabc)) }

RA == <<"A">>
RAB == <<"A", "-", "B">>

\* a relay whose CT, parameter and curve carry no @id, with one function
HyphenRelay(relay_id, func_id) ==
    DictN(("@id" :> relay_id)
          @@ ("CTs" :> DictN("CT" :> CT(None, T100, T5)))
          @@ ("Parameters" :> DictN("Parameter" :> Parameter(None)))
          @@ Functions(Function(func_id, SettingsWithCurve(Curve(None)) @@ Selectivity)))

\* two relays A-B and A, each with one function whose id may hold a hyphen
HyphenDocs ==
    { Document(ListN(<<HyphenRelay(RAB, f1), HyphenRelay(RA, f2)>>))
        : f1, f2 \in {<<"C">>, <<"B", "-", "C">>} }

Documents ==
    GeneralDocs \cup NoRelayDocs \cup CTDocs \cup SettingsDocs \cup OddDocs \cup HyphenDocs

(***************************************************************************)
(* run_normalize_pipeline                                                  *)
(***************************************************************************)
\* a printed line, without its timestamp and without the count or path it may
\* hold: the level, what it reports, and the node, file or phase it names
log_info(event, about) == [level |-> "INFO", event |-> event, about |-> about]

log_ok(event, about) == [level |-> "OK", event |-> event, about |-> about]

log_error(event, about) == [level |-> "ERROR", event |-> event, about |-> about]

\* get_relays_list: the relay list, or sys.exit(1) when a level is missing, or
\* the exception of calling get on a level that is no dict; with the lines printed
get_relays_list(data) ==
    LET missing(node) == [status |-> "exit", list |-> <<>>,
                          lines |-> <<log_error("node_not_found", node)>>]
        raised == [status |-> "raised", list |-> <<>>, lines |-> <<>>]
        root == C(data, "ProtectionDataset")
    IN  IF root.t = "none" THEN missing("ProtectionDataset")
        ELSE IF ~IsDict(root) THEN raised
        ELSE LET relays_root == C(root, "Relays")
             IN  IF relays_root.t = "none" THEN missing("Relays")
                 ELSE IF ~IsDict(relays_root) THEN raised
                 ELSE LET rs == C(relays_root, "Relay")
                      IN  IF rs.t = "none" THEN missing("Relay")
                          ELSE [status |-> "ok", list |-> ensure_list(rs),
                                lines |-> <<log_ok("relays_found", "Relay")>>]

\* a file of output/norm_csv: absent, or present with its data rows
NoFile == [exists |-> FALSE, rows |-> <<>>]

File(rows) == [exists |-> TRUE, rows |-> rows]

\* a save that removes the file of a table without rows
save_norm_csv_removing_stale(files, df, name) ==
    [files EXCEPT ![name] = IF df = <<>> THEN NoFile ELSE File(df)]

\* save_norm_csv: an empty DataFrame writes nothing, any other replaces the file
save_norm_csv(files, df, name) ==
    IF df = <<>> THEN files ELSE [files EXCEPT ![name] = File(df)]

\* the line save_norm_csv prints
save_norm_csv_line(df, name) ==
    IF df = <<>> THEN log_info("no_records", name) ELSE log_ok("file_written", name)

NoTables == [n \in {TableNames[i] : i \in 1..Len(TableNames)} |-> <<>>]

NoFiles == [n \in {TableNames[i] : i \in 1..Len(TableNames)} |-> NoFile]

\* before any load run
NoSnap == [db |-> NoTables, csv_before |-> NoFiles, csv_now |-> NoFiles]

TableIndex(name) == CHOOSE i \in 1..Len(TableNames) : TableNames[i] = name

\* the statement after the one that builds and saves table name
After(name) ==
    IF TableIndex(name) = Len(TableNames) THEN "done" ELSE TableNames[TableIndex(name) + 1]

\* the process calls run_normalize_pipeline: the document is loaded and its relay
\* list located, or the process exits
StartPass ==
    /\ pc \in {"idle", "done"}
    /\ load_at = 0
    /\ pass < MaxPasses
    /\ LET got == get_relays_list(xml)
       IN  /\ pc' = IF got.status = "ok" THEN TableNames[1] ELSE got.status
           /\ relays' = got.list
           /\ log' = log \o <<log_info("start", "NORMALIZE"), log_info("reading_xml", "xml"),
                              log_ok("xml_loaded", "xml")>> \o got.lines
    /\ pass' = pass + 1
    /\ prev' = tables
    /\ tables' = NoTables
    /\ UNCHANGED <<xml, counters, csv, sf_arg, sf_ret>>
    /\ UNCHANGED loadvars

\* save_norm_csv(normalize_<entity>(relays), name): one statement of the pass
Step(name) ==
    /\ pc = name
    /\ LET r == normalize(name, relays, counters)
       IN  /\ counters' = r.ctr
           /\ IF r.ok
              THEN /\ tables' = [tables EXCEPT ![name] = r.rows]
                   /\ csv' = save_norm_csv(csv, r.rows, name)
                   /\ pc' = After(name)
                   /\ log' = Append(log, save_norm_csv_line(r.rows, name))
                             \o (IF After(name) = "done"
                                 THEN <<log_ok("finished", "NORMALIZE")>> ELSE <<>>)
              ELSE /\ pc' = "raised"
                   /\ UNCHANGED <<tables, csv, log>>
    /\ UNCHANGED <<xml, relays, pass, prev, sf_arg, sf_ret>>
    /\ UNCHANGED loadvars

NormalizeRelaysCore == Step("relays_core")
NormalizeCts == Step("relays_cts")
NormalizeVts == Step("relays_vts")
NormalizeFunctions == Step("relays_functions")
NormalizeFunctionSettings == Step("relays_function_settings")
NormalizeFunctionCurves == Step("relays_curves")
NormalizeCurvePoints == Step("relays_curve_points")
NormalizeParameters == Step("relays_parameters")
NormalizeSelectivity == Step("relays_selectivity")

Next ==
    \/ StartPass
    \/ NormalizeRelaysCore
    \/ NormalizeCts
    \/ NormalizeVts
    \/ NormalizeFunctions
    \/ NormalizeFunctionSettings
    \/ NormalizeFunctionCurves
    \/ NormalizeCurvePoints
    \/ NormalizeParameters
    \/ NormalizeSelectivity

Init ==
    /\ xml \in Documents
    /\ relays = <<>>
    /\ pc = "idle"
    /\ pass = 0
    /\ counters = ZeroCounters
    /\ tables = NoTables
    /\ csv = NoFiles
    /\ prev = NoTables
    /\ sf_arg = PyNone
    /\ sf_ret = FNone
    /\ log = <<>>
    /\ db = NoTables
    /\ load_at = 0
    /\ runs = 0
    /\ rejected = {}
    /\ attempted = <<>>
    /\ snap = NoSnap

Spec == Init /\ [][Next]_vars

(***************************************************************************)
(* Direct calls of safe_float                                              *)
(***************************************************************************)
MaxTextLen == 2

CoerceAlphabet == {" ", "+", "-", "1", "5", ".", "n", "N", "x", InfSign}

CoerceTexts ==
    SeqsUpTo(CoerceAlphabet, MaxTextLen)
    \cup { <<"n", "a", "n">>, <<"N", "a", "N">>, <<" ", "N", "A", "N", " ">>,
           <<"+", "n", "a", "n">>, <<"-", "N", "a", "N">>,
           <<"i", "n", "f">>, <<"+", "i", "n", "f">>, <<"-", "i", "n", "f">>,
           <<"I", "N", "F">>, <<"-", "I", "n", "f">>,
           <<"I", "n", "f", "i", "n", "i", "t", "y">>,
           <<"-", "i", "n", "f", "i", "n", "i", "t", "y">>,
           <<"1", "2", ".", "5">>, <<"-", "1", ".", "5">>, <<" ", "1", "5", " ">>,
           <<"1", ".", "5", ".">>, <<"1", "5", "x">>, <<"a", "b", "c">> }

CoerceInputs ==
    {PyNone, PyNum(FNum(5, 1))} \cup {PyStr(t) : t \in CoerceTexts}

InitCoerce ==
    /\ xml = DictN(EmptyD)
    /\ relays = <<>>
    /\ pc = "safe_float"
    /\ pass = 0
    /\ counters = ZeroCounters
    /\ tables = NoTables
    /\ csv = NoFiles
    /\ prev = NoTables
    /\ sf_arg \in CoerceInputs
    /\ sf_ret = FNone
    /\ log = <<>>
    /\ db = NoTables
    /\ load_at = 0
    /\ runs = 0
    /\ rejected = {}
    /\ attempted = <<>>
    /\ snap = NoSnap

CallSafeFloat ==
    /\ pc = "safe_float"
    /\ sf_ret' = safe_float(sf_arg)
    /\ pc' = "returned"
    /\ UNCHANGED <<xml, relays, pass, counters, tables, csv, prev, sf_arg, log>>
    /\ UNCHANGED loadvars

SpecCoerce == InitCoerce /\ [][CallSafeFloat]_vars

(***************************************************************************)
(* Properties                                                              *)
(***************************************************************************)
Rows(name) == {tables[name][i] : i \in 1..Len(tables[name])}

\* C1: a second pass in the same process over the same relay list builds, for
\* every entity kind, the same rows in the same order as the pass before it
C1_Deterministic == (pc = "done" /\ pass >= 2) => tables = prev

\* the column the loader uses as conflict key (run_load_pipeline's pk_map)
PrimaryKey(name, row) ==
    CASE name = "relays_core" -> row.relay_id
      [] name = "relays_cts" -> row.ct_id
      [] name = "relays_vts" -> row.vt_id
      [] name = "relays_functions" -> row.function_id
      [] name = "relays_function_settings" -> row.setting_id
      [] name = "relays_curves" -> row.curve_id
      [] name = "relays_curve_points" -> row.point_id
      [] name = "relays_parameters" -> row.parameter_id
      [] name = "relays_selectivity" -> row.selectivity_id

\* C2: in each of the nine tables built from one relay list, no two rows carry
\* the same primary key
C2_PrimaryKeysUnique ==
    \A name \in DOMAIN tables :
        \A i, j \in 1..Len(tables[name]) :
            PrimaryKey(name, tables[name][i]) = PrimaryKey(name, tables[name][j]) => i = j

\* C3: every FunctionSetting, Curve and Selectivity row carries the function_id
\* of some row of the Function table built from the same relay list
C3_FunctionIdsReferToFunctions ==
    \A name \in {"relays_function_settings", "relays_curves", "relays_selectivity"} :
        \A row \in Rows(name) :
            \E f \in Rows("relays_functions") : f.function_id = row.function_id

\* C4: every CurvePoint row carries the curve_id of some row of the Curve table
\* built from the same relay list
C4_CurveIdsReferToCurves ==
    \A row \in Rows("relays_curve_points") :
        \E c \in Rows("relays_curves") : c.curve_id = row.curve_id

\* C5: every relay_id of the CT, VT, Function and Parameter tables is in the
\* relay_id column of the RelayCore table built from the same relay list
C5_RelayIdsReferToRelays ==
    \A name \in {"relays_cts", "relays_vts", "relays_functions", "relays_parameters"} :
        \A row \in Rows(name) :
            \E r \in Rows("relays_core") : r.relay_id = row.relay_id

\* C5's case: a finished pass over two relays, one of them without @id, that
\* built CT, VT, Function and Parameter rows
C5_Witness ==
    /\ pc = "done"
    /\ Len(relays) = 2
    /\ \A name \in {"relays_cts", "relays_vts", "relays_functions", "relays_parameters"} :
           tables[name] # <<>>
    /\ \E row \in Rows("relays_cts") \cup Rows("relays_functions") : row.relay_id = None
    /\ \E row \in Rows("relays_vts") \cup Rows("relays_parameters") : row.relay_id = R2

\* C6: when a pass is about to run its first extraction function, every fallback
\* counter is zero
C6_CountersZeroAtPassStart == pc = TableNames[1] => counters = ZeroCounters

\* a decimal number: an optional sign, then digits with at most one point
IsDecimalNumber(text) ==
    LET body == IF text # <<>> /\ Head(text) \in {"+", "-"} THEN Tail(text) ELSE text
    IN  IsDecimalBody(body)

DecimalNumberVal(text) ==
    IF Head(text) = "-" THEN FNeg(DecimalBodyVal(Tail(text)))
    ELSE IF Head(text) = "+" THEN DecimalBodyVal(Tail(text))
    ELSE DecimalBodyVal(text)

\* C7: safe_float yields absent for None, for blank text, for nan in any letter
\* case and for text that is no decimal number, and the number for text that is one
C7_SafeFloatCoercion ==
    (pc = "returned" /\ sf_arg.t # "num") =>
        LET text == Strip(sf_arg.s)
        IN  IF sf_arg.t = "none" \/ text = <<>> THEN sf_ret = FNone
            ELSE IF IsDecimalNumber(text) THEN sf_ret = DecimalNumberVal(text)
            ELSE sf_ret = FNone

\* a token of positive or negative infinity: the infinity sign, inf or infinity,
\* in any letter case, with or without a sign
IsInfinityToken(s) ==
    LET text == Strip(s)
        body == IF text # <<>> /\ Head(text) \in {"+", "-"} THEN Tail(text) ELSE text
    IN  Lower(body) \in { <<InfSign>>, <<"i", "n", "f">>,
                          <<"i", "n", "f", "i", "n", "i", "t", "y">> }

\* C8: safe_float yields absent for every token of positive or negative infinity
C8_InfinityTokensAbsent ==
    (pc = "returned" /\ sf_arg.t = "str" /\ IsInfinityToken(sf_arg.s)) => sf_ret = FNone

\* C9: a CT row's ratio is primary divided by secondary when both currents are
\* numbers and the secondary is not zero, and null otherwise
C9_CtRatio ==
    \A row \in Rows("relays_cts") :
        IF row.primary_a.k = "num" /\ row.secondary_a.k = "num" /\ row.secondary_a.n # 0
        THEN row.ratio = FDiv(row.primary_a, row.secondary_a)
        ELSE row.ratio = FNone

\* the (parameter, attribute, value) pairs of a Settings block outside its curves:
\* the attributes of its parameter blocks and the text of its text children
RECURSIVE BlockPairs(_, _, _)
BlockPairs(key, items, i) ==
    IF i > Len(items) THEN {}
    ELSE (IF Head(items[i].k) = "@"
          THEN {Triple(key, Tail(items[i].k), items[i].v.s)} ELSE {})
         \cup BlockPairs(key, items, i + 1)

RawPairs(settings) ==
    UNION { IF settings.items[i].k = CurveKey THEN {}
            ELSE IF settings.items[i].v.t = "odict"
                 THEN BlockPairs(settings.items[i].k, settings.items[i].v.items, 1)
            ELSE {Triple(settings.items[i].k, <<"_", "t", "e", "x", "t">>,
                         settings.items[i].v.s)}
            : i \in 1..Len(settings.items) }

\* the Settings block of the document's function, for a document of one relay
\* with one function
TheSettings == C(C(C(relays[1], "ProtectionFunctions"), "Function"), "Settings")

\* C10: every raw pair of the settings block is in the FunctionSetting row's
\* extension map under "<parameter>.<attribute>" with its own value
C10_RawSettingsRecoverable ==
    (pc = "done" /\ xml \in SettingsDocs) =>
        \A t \in RawPairs(TheSettings) :
            \E row \in Rows("relays_function_settings") :
                /\ DictHas(row.extra_json, t.parameter \o <<".">> \o t.attribute)
                /\ DictGet(row.extra_json, t.parameter \o <<".">> \o t.attribute) = t.value

\* the raw pairs of a Settings block whose parameter feeds no canonical column
UnmappedPairs(settings) ==
    {t \in RawPairs(settings) : canonical_column(t.parameter) = ""}

\* C11: the extension map of the FunctionSetting row holds exactly one entry for
\* each raw pair that is not mapped to a canonical column, and no other entry
C11_ExtensionMapHoldsUnmappedOnly ==
    (pc = "done" /\ xml \in SettingsDocs) =>
        \A row \in Rows("relays_function_settings") :
            /\ Len(row.extra_json) = Cardinality(UnmappedPairs(TheSettings))
            /\ \A t \in UnmappedPairs(TheSettings) :
                   DictHas(row.extra_json, t.parameter \o <<".">> \o t.attribute)

\* table name of the running pass has been built
Built(name) ==
    \/ pc = "done"
    \/ /\ \E i \in 1..Len(TableNames) : TableNames[i] = pc
       /\ TableIndex(pc) > TableIndex(name)

\* the structured functions of a relay, in document order
FunctionsOf(relay) ==
    LET pf_block == C(relay, "ProtectionFunctions")
    IN  IF pf_block.t = "dict"
        THEN SelectSeq(ensure_list(C(pf_block, "Function")), IsDict)
        ELSE <<>>

\* the structured functions of the relay list, each with its relay, in document order
RECURSIVE AllFunctions(_, _)
AllFunctions(rs, i) ==
    IF i > Len(rs) THEN <<>>
    ELSE [j \in 1..Len(FunctionsOf(rs[i])) |->
             [relay |-> rs[i], func |-> FunctionsOf(rs[i])[j]]]
         \o AllFunctions(rs, i + 1)

\* the function has a settings block with at least one raw pair
HasRawTriple(rf) ==
    LET settings == C(rf.func, "Settings")
    IN  settings.t = "odict" /\ RawPairs(settings) # {}

SettingKey(relay_id, func_id) == <<"S", "E", "T", "-">> \o relay_id \o <<"-">> \o func_id

\* C12: the FunctionSetting table holds exactly one row for each function that has
\* at least one raw settings pair, in document order and keyed
\* SET-<relayId>-<functionId>, and no row for any other function
C12_OneSettingRowPerFunction ==
    Built("relays_function_settings") =>
        LET with == SelectSeq(AllFunctions(relays, 1), HasRawTriple)
            rows == tables["relays_function_settings"]
        IN  /\ Len(rows) = Len(with)
            /\ \A i \in 1..Len(with) :
                   LET relay_id == A(with[i].relay, "@id")
                       func_id == A(with[i].func, "@id")
                   IN  (Truthy(relay_id) /\ Truthy(func_id)) =>
                           /\ rows[i].setting_id = SettingKey(relay_id, func_id)
                           /\ rows[i].function_id = func_id

\* C12's case: a finished pass over a relay R1 whose first function has no
\* settings block and whose second function F2 has one
C12_Witness ==
    /\ pc = "done"
    /\ Len(AllFunctions(relays, 1)) = 2
    /\ ~Has(AllFunctions(relays, 1)[1].func, "Settings")
    /\ Len(tables["relays_function_settings"]) = 1
    /\ tables["relays_function_settings"][1].setting_id
           = <<"S", "E", "T", "-", "R", "1", "-", "F", "2">>

IsStructured(e) == IsDict(e.node)

\* the structured children named key of a block, in document order, each with its
\* 1-based position among all the children of that name
StructuredChildren(block, key) ==
    IF block.t # "dict" THEN <<>>
    ELSE LET xs == ensure_list(C(block, key))
         IN  SelectSeq([k \in 1..Len(xs) |-> [node |-> xs[k], pos |-> k]], IsStructured)

\* the structured CTs of the relay list, each with the @id of its relay
RECURSIVE AllCts(_, _)
AllCts(rs, i) ==
    IF i > Len(rs) THEN <<>>
    ELSE LET cts == StructuredChildren(C(rs[i], "CTs"), "CT")
         IN  [j \in 1..Len(cts) |->
                 [relay_id |-> A(rs[i], "@id"), node |-> cts[j].node, pos |-> cts[j].pos]]
             \o AllCts(rs, i + 1)

\* C13: the CT table holds the structured CTs in document order; a CT with a
\* non-empty @id is keyed by it, and one without is keyed CT-<relayId>-<seq> with
\* seq its position among the relay's CT siblings, written with two digits
C13_CtKeysInDocumentOrder ==
    Built("relays_cts") =>
        LET cts == AllCts(relays, 1)
            rows == tables["relays_cts"]
        IN  /\ Len(rows) = Len(cts)
            /\ \A i \in 1..Len(cts) :
                   /\ rows[i].relay_id = cts[i].relay_id
                   /\ Truthy(A(cts[i].node, "@id")) => rows[i].ct_id = A(cts[i].node, "@id")
                   /\ (~Truthy(A(cts[i].node, "@id")) /\ Truthy(cts[i].relay_id)) =>
                          rows[i].ct_id = <<"C", "T", "-">> \o cts[i].relay_id \o <<"-">>
                                            \o Fmt(cts[i].pos, 2)

\* C13's case: relay R1 with two unnamed CTs, keyed CT-R1-01 then CT-R1-02
C13_Witness ==
    /\ Built("relays_cts")
    /\ Len(relays) = 1
    /\ Len(tables["relays_cts"]) = 2
    /\ tables["relays_cts"][1].ct_id = <<"C", "T", "-", "R", "1", "-", "0", "1">>
    /\ tables["relays_cts"][2].ct_id = <<"C", "T", "-", "R", "1", "-", "0", "2">>

\* the margin of a Selectivity block: the number of its CoordinationMargin's seconds
BlockMargin(sel_block) ==
    LET margin == C(sel_block, "CoordinationMargin")
    IN  IF margin.t = "dict" THEN safe_float(Opt(A(margin, "@seconds"))) ELSE FNone

\* the structured devices of one direction of a function's Selectivity block
DevicesOf(rf, direction, code) ==
    LET sel_block == C(rf.func, "Selectivity")
        devs == StructuredChildren(sel_block, direction)
    IN  [j \in 1..Len(devs) |->
            [relay_id |-> A(rf.relay, "@id"), func_id |-> A(rf.func, "@id"),
             code |-> code, pos |-> devs[j].pos, margin |-> BlockMargin(sel_block)]]

\* the selectivity edges of the functions fs: of each function the downstream
\* devices, then the upstream ones
RECURSIVE AllEdges(_, _)
AllEdges(fs, i) ==
    IF i > Len(fs) THEN <<>>
    ELSE DevicesOf(fs[i], "DownstreamDevice", "D") \o DevicesOf(fs[i], "UpstreamDevice", "U")
         \o AllEdges(fs, i + 1)

\* C14: every Selectivity row carries the coordination margin of its block, and
\* the device at position k of a direction is keyed
\* SEL-<relayId>-<functionId>-<D or U>-<k as 3 digits>, each direction numbered from 1
C14_SelectivityKeysAndMargin ==
    Built("relays_selectivity") =>
        LET edges == AllEdges(AllFunctions(relays, 1), 1)
            rows == tables["relays_selectivity"]
        IN  /\ Len(rows) = Len(edges)
            /\ \A i \in 1..Len(edges) :
                   /\ rows[i].coordination_margin = edges[i].margin
                   /\ (Truthy(edges[i].relay_id) /\ Truthy(edges[i].func_id)) =>
                          rows[i].selectivity_id =
                              <<"S", "E", "L", "-">> \o edges[i].relay_id \o <<"-">>
                                \o edges[i].func_id \o <<"-", edges[i].code, "-">>
                                \o Fmt(edges[i].pos, 3)

\* C14's case: relay R1, function F2 with margin 0.3, two downstream devices and
\* one upstream device
C14_Witness ==
    /\ pc = "done"
    /\ Len(relays) = 1
    /\ Len(tables["relays_selectivity"]) = 3
    /\ \A i \in 1..3 : tables["relays_selectivity"][i].coordination_margin = FNum(3, 10)
    /\ tables["relays_selectivity"][1].selectivity_id
           = <<"S", "E", "L", "-", "R", "1", "-", "F", "2", "-", "D", "-", "0", "0", "1">>
    /\ tables["relays_selectivity"][2].selectivity_id
           = <<"S", "E", "L", "-", "R", "1", "-", "F", "2", "-", "D", "-", "0", "0", "2">>
    /\ tables["relays_selectivity"][3].selectivity_id
           = <<"S", "E", "L", "-", "R", "1", "-", "F", "2", "-", "U", "-", "0", "0", "1">>

\* a level of the path ProtectionDataset/Relays/Relay is missing
NoRelayList(data) ==
    LET root == C(data, "ProtectionDataset")
    IN  \/ root.t = "none"
        \/ root.t = "dict" /\ C(root, "Relays").t = "none"
        \/ root.t = "dict" /\ C(root, "Relays").t = "dict"
              /\ C(C(root, "Relays"), "Relay").t = "none"

\* the document has a relay list and every relay of it is a structured node
HasRelays(data) ==
    LET root == C(data, "ProtectionDataset")
    IN  /\ root.t = "dict"
        /\ C(root, "Relays").t = "dict"
        /\ LET rs == ensure_list(C(C(root, "Relays"), "Relay"))
           IN  rs # <<>> /\ \A i \in 1..Len(rs) : IsDict(rs[i])

\* C15: over a relay list of structured relays, whatever their optional blocks
\* are (absent, empty or text), no extraction function raises
C15_ExtractionNeverRaises == HasRelays(xml) => pc # "raised"

\* C16: a document without relay list aborts the pass before any extraction
\* function runs and before any table is written, and a pass is aborted for no
\* other condition of the document
C16_AbortOnlyWithoutRelayList ==
    /\ (pass > 0 /\ NoRelayList(xml)) =>
           pc = "exit" /\ tables = NoTables /\ csv = NoFiles
    /\ pc \in {"exit", "raised"} => NoRelayList(xml)

\* the tables built from an optional block of the relay
RelayBlockTables == {"relays_cts", "relays_vts", "relays_functions", "relays_parameters"}

\* the optional block of the relay a table is built from
BlockOf(name) ==
    CASE name = "relays_cts" -> "CTs"
      [] name = "relays_vts" -> "VTs"
      [] name = "relays_functions" -> "ProtectionFunctions"
      [] name = "relays_parameters" -> "Parameters"

\* the repeatable child of that block
ChildOf(name) ==
    CASE name = "relays_cts" -> "CT"
      [] name = "relays_vts" -> "VT"
      [] name = "relays_functions" -> "Function"
      [] name = "relays_parameters" -> "Parameter"

\* the lines printed since the running pass started
PassLog ==
    LET start == CHOOSE k \in 1..Len(log) :
                     /\ log[k].event = "start"
                     /\ \A j \in (k + 1)..Len(log) : log[j].event # "start"
    IN  SubSeq(log, start, Len(log))

\* relay i of the list lacks the block table name is built from
Lacks(i, name) == ~Has(relays[i], BlockOf(name))

\* C17: when a relay lacks an optional block, the table built from that block has
\* no row of that relay, has the rows of the other relays, and a diagnostic about
\* the missing block or its empty table has been printed
C17_MissingBlockDiagnosed ==
    \A name \in RelayBlockTables :
        Built(name) =>
            \A i \in 1..Len(relays) :
                Lacks(i, name) =>
                    /\ \A row \in Rows(name) :
                           row.relay_id = A(relays[i], "@id") =>
                               \E j \in 1..Len(relays) :
                                   ~Lacks(j, name) /\ A(relays[j], "@id") = A(relays[i], "@id")
                    /\ \A j \in 1..Len(relays) :
                           StructuredChildren(C(relays[j], BlockOf(name)), ChildOf(name)) # <<>>
                               => \E row \in Rows(name) : row.relay_id = A(relays[j], "@id")
                    /\ \E k \in 1..Len(PassLog) :
                           /\ PassLog[k].level # "OK"
                           /\ PassLog[k].about \in {BlockOf(name), name}

RECURSIVE Flatten(_)
Flatten(ss) == IF ss = <<>> THEN <<>> ELSE Head(ss) \o Flatten(Tail(ss))

Nodes(children) == [j \in 1..Len(children) |-> children[j].node]

\* the block carries a vtDefined or vtEnabled flag
HasVtFlag(vts_block) == Has(vts_block, "@vtDefined") \/ Has(vts_block, "@vtEnabled")

\* the VTs a relay's rows stand for: its structured VT children, or, when the
\* block has no VT child or only an empty VT element, one VT without fields if
\* the block carries a flag
VtNodes(relay) ==
    LET vts_block == C(relay, "VTs")
    IN  IF vts_block.t # "dict" THEN <<>>
        ELSE IF C(vts_block, "VT").t = "none"
             THEN IF HasVtFlag(vts_block) THEN <<DictN(EmptyD)>> ELSE <<>>
        ELSE Nodes(StructuredChildren(vts_block, "VT"))

\* the candidate curves of a function: those of its settings, then its own
CurveCandidates(func) ==
    LET settings == C(func, "Settings")
    IN  (IF settings.t = "odict" /\ OHas(settings, CurveKey)
         THEN ensure_list(OGet(settings, CurveKey)) ELSE <<>>)
        \o ensure_list(C(func, "Curve"))

\* the structured repeatable children a table is built from, in document order
ExpectedNodes(name) ==
    LET fs == AllFunctions(relays, 1)
        OfRelays(block, child) ==
            Flatten([i \in 1..Len(relays) |->
                        Nodes(StructuredChildren(C(relays[i], block), child))])
    IN  CASE name = "relays_cts" -> OfRelays("CTs", "CT")
          [] name = "relays_vts" -> Flatten([i \in 1..Len(relays) |-> VtNodes(relays[i])])
          [] name = "relays_functions" -> [j \in 1..Len(fs) |-> fs[j].func]
          [] name = "relays_curves" ->
                Flatten([j \in 1..Len(fs) |-> SelectSeq(CurveCandidates(fs[j].func), IsDict)])
          [] name = "relays_curve_points" ->
                Flatten([j \in 1..Len(fs) |->
                            Nodes(StructuredChildren(C(fs[j].func, "CurvePoints"), "Point"))])
          [] name = "relays_parameters" -> OfRelays("Parameters", "Parameter")
          [] name = "relays_selectivity" ->
                Flatten([j \in 1..Len(fs) |->
                            LET sel_block == C(fs[j].func, "Selectivity")
                            IN  Nodes(StructuredChildren(sel_block, "DownstreamDevice"))
                                \o Nodes(StructuredChildren(sel_block, "UpstreamDevice"))])

\* the row is the row of that node: it carries the node's own attributes
RowOf(name, row, node) ==
    CASE name = "relays_cts" ->
            /\ row.primary_a = safe_float(Opt(A(node, "@primaryA")))
            /\ Truthy(A(node, "@id")) => row.ct_id = A(node, "@id")
      [] name = "relays_vts" ->
            /\ row.primary_kv = safe_float(Opt(A(node, "@primaryKV")))
            /\ Truthy(A(node, "@id")) => row.vt_id = A(node, "@id")
      [] name = "relays_functions" -> row.function_id = A(node, "@id")
      [] name = "relays_curves" ->
            /\ row.family = A(node, "@family")
            /\ Truthy(A(node, "@id")) => row.curve_id = A(node, "@id")
      [] name = "relays_curve_points" ->
            /\ row.multiple = safe_float(Opt(A(node, "@multiple")))
            /\ row.time_seconds = safe_float(Opt(A(node, "@timeSeconds")))
      [] name = "relays_parameters" ->
            /\ row.name = A(node, "@name")
            /\ Truthy(A(node, "@id")) => row.parameter_id = A(node, "@id")
      [] name = "relays_selectivity" ->
            A(node, "@id") \in {row.downstream_device, row.upstream_device}

\* the tables built from repeatable children
ChildTables ==
    { "relays_cts", "relays_vts", "relays_functions", "relays_curves",
      "relays_curve_points", "relays_parameters", "relays_selectivity" }

\* every VTs block of the relay list names a VT child
VtChildGiven ==
    \A i \in 1..Len(relays) :
        C(relays[i], "VTs").t = "dict" => Has(C(relays[i], "VTs"), "VT")

\* C18: each table holds one row for each structured repeatable child, in
\* document order, and no row for a child that is text or an empty element
C18_OnlyStructuredChildrenGiveRows ==
    \A name \in ChildTables :
        (Built(name) /\ (name = "relays_vts" => VtChildGiven)) =>
            LET nodes == ExpectedNodes(name)
            IN  /\ Len(tables[name]) = Len(nodes)
                /\ \A i \in 1..Len(nodes) : RowOf(name, tables[name][i], nodes[i])

\* the block, with its child key put in a one-element list when the block holds
\* it as a bare node
WrapChild(block, key) ==
    IF block.t = "dict" /\ Has(block, key) /\ block.d[key].t # "list"
    THEN DictN([block.d EXCEPT ![key] = ListN(<<@>>)])
    ELSE block

\* the node, with the child of its block put in a list
WrapIn(node, block, key) ==
    IF Has(node, block) THEN DictN([node.d EXCEPT ![block] = WrapChild(@, key)]) ELSE node

\* the settings, with a bare nested curve put in a list
WrapSettingsCurve(settings) ==
    IF settings.t # "odict" THEN settings
    ELSE ODict([i \in 1..Len(settings.items) |->
                   IF settings.items[i].k = CurveKey /\ settings.items[i].v.t # "list"
                   THEN Item(CurveKey, ListN(<<settings.items[i].v>>))
                   ELSE settings.items[i]])

WrapFunction(func) ==
    IF func.t # "dict" THEN func
    ELSE LET f1 == WrapChild(func, "Curve")
             f2 == WrapIn(f1, "CurvePoints", "Point")
             f3 == WrapIn(f2, "Selectivity", "DownstreamDevice")
             f4 == WrapIn(f3, "Selectivity", "UpstreamDevice")
         IN  IF Has(f4, "Settings")
             THEN DictN([f4.d EXCEPT !["Settings"] = WrapSettingsCurve(@)])
             ELSE f4

WrapFunctions(pf_block) ==
    IF pf_block.t # "dict" \/ ~Has(pf_block, "Function") THEN pf_block
    ELSE LET funcs == WrapChild(pf_block, "Function").d["Function"].xs
         IN  DictN([pf_block.d EXCEPT
                       !["Function"] = ListN([j \in 1..Len(funcs) |-> WrapFunction(funcs[j])])])

\* the relay, with every repeatable child that is a bare node put in a
\* one-element list
WrapRelay(relay) ==
    LET r1 == WrapIn(relay, "CTs", "CT")
        r2 == WrapIn(r1, "VTs", "VT")
        r3 == WrapIn(r2, "Parameters", "Parameter")
    IN  IF Has(r3, "ProtectionFunctions")
        THEN DictN([r3.d EXCEPT !["ProtectionFunctions"] = WrapFunctions(@)])
        ELSE r3

Wrapped(rs) == [i \in 1..Len(rs) |-> WrapRelay(rs[i])]

\* get of a block that is not there
CNone(node, key) == IF node.t = "dict" THEN C(node, key) ELSE NoneV

\* C19: an extraction function builds the same table from the relay list and
\* from the relay list with every bare repeatable child put in a one-element
\* list; ensure_list gives the empty list for None, a list itself, [x] for any
\* other x, and applying it twice changes nothing
C19_BareNodeIsOneElementList ==
    (\E i \in 1..Len(TableNames) : TableNames[i] = pc) =>
        /\ normalize(pc, Wrapped(relays), counters) = normalize(pc, relays, counters)
        /\ \A i \in 1..Len(relays) :
               \A b \in {<<"CTs", "CT">>, <<"VTs", "VT">>, <<"Parameters", "Parameter">>,
                          <<"ProtectionFunctions", "Function">>} :
                   LET x == CNone(C(relays[i], b[1]), b[2])
                   IN  /\ x.t = "none" => ensure_list(x) = <<>>
                       /\ x.t = "list" => ensure_list(x) = x.xs
                       /\ x.t \notin {"none", "list"} => ensure_list(x) = <<x>>
                       /\ ensure_list(ListN(ensure_list(x))) = ensure_list(x)

\* the rows of the VT table that carry relay_id
VtRowsOf(relay_id) ==
    LET OfRelay(row) == row.relay_id = relay_id
    IN  SelectSeq(tables["relays_vts"], OfRelay)

\* VT-AUTO- followed by six digits
IsVtAutoKey(key) ==
    /\ Len(key) = 14
    /\ SubSeq(key, 1, 8) = <<"V", "T", "-", "A", "U", "T", "O", "-">>
    /\ \A k \in 9..14 : IsDigit(key[k])

\* the synthesized row of a relay: no measurement, the flags of the block, and
\* the key of the relay's first VT
IsSynthesizedVt(row, relay_id, vts_block) ==
    /\ row.location = None
    /\ row.primary_kv = FNone
    /\ row.secondary_v = FNone
    /\ row.vt_defined = A(vts_block, "@vtDefined")
    /\ row.vt_enabled = A(vts_block, "@vtEnabled")
    /\ IF Truthy(relay_id)
       THEN row.vt_id = <<"V", "T", "-">> \o relay_id \o <<"-", "0", "1">>
       ELSE IsVtAutoKey(row.vt_id)

\* C20: a relay whose VTs block has no VT child has a synthesized VT row if and
\* only if the block carries a vtDefined or vtEnabled flag, and that row is the
\* relay's only VT row
C20_SynthesizedVtIffFlag ==
    Built("relays_vts") =>
        \A i \in 1..Len(relays) :
            LET relay_id == A(relays[i], "@id")
                vts_block == C(relays[i], "VTs")
                rows == VtRowsOf(relay_id)
            IN  ( /\ vts_block.t = "dict"
                  /\ ~Has(vts_block, "VT")
                  /\ \A j \in 1..Len(relays) : A(relays[j], "@id") = relay_id => j = i ) =>
                    IF HasVtFlag(vts_block)
                    THEN Len(rows) = 1 /\ IsSynthesizedVt(rows[1], relay_id, vts_block)
                    ELSE rows = <<>>

\* the structured candidate curves of the functions fs, each with the ids of its
\* relay and function and its 1-based position in the function's candidate list
AllCurves(fs) ==
    Flatten([j \in 1..Len(fs) |->
                LET cands == CurveCandidates(fs[j].func)
                IN  SelectSeq([k \in 1..Len(cands) |->
                                  [relay_id |-> A(fs[j].relay, "@id"),
                                   func_id |-> A(fs[j].func, "@id"),
                                   node |-> cands[k], pos |-> k]],
                              IsStructured)])

\* CUR-AUTO- followed by six digits
IsCurveAutoKey(key) ==
    /\ Len(key) = 15
    /\ SubSeq(key, 1, 9) = <<"C", "U", "R", "-", "A", "U", "T", "O", "-">>
    /\ \A k \in 10..15 : IsDigit(key[k])

\* the key of a curve: its @id, else the position key when relay and function
\* carry an id, else a counter key
IsCurveKey(key, curve) ==
    IF Truthy(A(curve.node, "@id")) THEN key = A(curve.node, "@id")
    ELSE IF Truthy(curve.relay_id) /\ Truthy(curve.func_id)
         THEN key = <<"C", "U", "R", "-">> \o curve.relay_id \o <<"-">> \o curve.func_id
                      \o <<"-">> \o Fmt(curve.pos, 2)
    ELSE IsCurveAutoKey(key)

\* C21: the Curve table holds, for each function, the curves nested in its
\* settings and then the curves directly under it; each is keyed by its @id,
\* else CUR-<relayId>-<functionId>-<position in that list, two digits>, else
\* CUR-AUTO-<counter>
C21_CurveUnionAndKeys ==
    Built("relays_curves") =>
        LET curves == AllCurves(AllFunctions(relays, 1))
            rows == tables["relays_curves"]
        IN  /\ Len(rows) = Len(curves)
            /\ \A i \in 1..Len(curves) :
                   /\ rows[i].function_id = curves[i].func_id
                   /\ IsCurveKey(rows[i].curve_id, curves[i])

\* C21's case: relay R1, function F2 with a text and an unnamed curve in its
\* settings and the curve K1 of its own
C21_Witness ==
    /\ pc = "done"
    /\ Len(relays) = 1
    /\ Len(tables["relays_curves"]) = 2
    /\ tables["relays_curves"][1].curve_id
           = <<"C", "U", "R", "-", "R", "1", "-", "F", "2", "-", "0", "2">>
    /\ tables["relays_curves"][2].curve_id = K1

\* the number of rows the Curve table holds for the functions before function j
RECURSIVE CurvesBefore(_, _)
CurvesBefore(fs, j) ==
    IF j = 1 THEN 0
    ELSE CurvesBefore(fs, j - 1) + Len(SelectSeq(CurveCandidates(fs[j - 1].func), IsDict))

\* the structured points of the functions fs, each with the index of its
\* function and its 1-based position in the CurvePoints block
AllPoints(fs) ==
    Flatten([j \in 1..Len(fs) |->
                LET points == StructuredChildren(C(fs[j].func, "CurvePoints"), "Point")
                IN  [k \in 1..Len(points) |-> [fn |-> j, pos |-> points[k].pos]]])

\* C22: every point of a function carries the curve_id the Curve table gives
\* the function's first candidate curve, and is keyed PT-<curve_id>-<position
\* of the point, three digits>
C22_PointsOnFirstCurve ==
    Built("relays_curve_points") =>
        LET fs == AllFunctions(relays, 1)
            points == AllPoints(fs)
            rows == tables["relays_curve_points"]
        IN  /\ Len(rows) = Len(points)
            /\ \A i \in 1..Len(points) :
                   LET cands == CurveCandidates(fs[points[i].fn].func)
                   IN  /\ rows[i].point_id = <<"P", "T", "-">> \o rows[i].curve_id \o <<"-">>
                                               \o Fmt(points[i].pos, 3)
                       /\ (cands # <<>> /\ IsDict(cands[1])) =>
                              rows[i].curve_id =
                                  tables["relays_curves"][CurvesBefore(fs, points[i].fn) + 1].curve_id

(***************************************************************************)
(* LOAD phase (src/src/parsers/load.py): run_load_pipeline reads the files *)
(* of output/norm_csv in TABLE_LOAD_ORDER and inserts each into the        *)
(* database table of the same name.                                        *)
(***************************************************************************)
\* an order that loads the points before the curves
TABLE_LOAD_ORDER_points_first ==
    << "relays_core", "relays_cts", "relays_vts", "relays_functions",
       "relays_function_settings", "relays_curve_points", "relays_curves",
       "relays_parameters", "relays_selectivity" >>

TABLE_LOAD_ORDER ==
    << "relays_core", "relays_cts", "relays_vts", "relays_functions",
       "relays_function_settings", "relays_curves", "relays_curve_points",
       "relays_parameters", "relays_selectivity" >>

\* run_load_pipeline's pk_map: the conflict column of each table
pk_map(name) ==
    CASE name = "relays_core" -> "relay_id"
      [] name = "relays_cts" -> "ct_id"
      [] name = "relays_vts" -> "vt_id"
      [] name = "relays_functions" -> "function_id"
      [] name = "relays_function_settings" -> "setting_id"
      [] name = "relays_curves" -> "curve_id"
      [] name = "relays_curve_points" -> "point_id"
      [] name = "relays_parameters" -> "parameter_id"
      [] name = "relays_selectivity" -> "selectivity_id"

\* the columns that hold text, which a CSV field can leave empty
TextColumns ==
    { "relay_id", "ct_id", "vt_id", "function_id", "setting_id", "curve_id", "point_id",
      "parameter_id", "selectivity_id", "manufacturer", "model", "location", "name",
      "ansi_code", "enabled", "family", "type", "standard", "base", "group_name", "value",
      "upstream_device", "downstream_device", "element", "vt_defined", "vt_enabled" }

\* the columns of the database tables
table_columns(name) ==
    CASE name = "relays_core" -> {"relay_id", "manufacturer", "model", "frequency_hz"}
      [] name = "relays_cts" ->
             {"relay_id", "ct_id", "location", "primary_a", "secondary_a", "ratio", "burden_va"}
      [] name = "relays_vts" ->
             {"relay_id", "vt_id", "location", "primary_kv", "secondary_v", "vt_defined",
              "vt_enabled"}
      [] name = "relays_functions" ->
             {"relay_id", "function_id", "name", "ansi_code", "enabled"}
      [] name = "relays_function_settings" ->
             {"setting_id", "function_id", "pickup_pu", "pickup_a", "time_dial",
              "min_time_seconds", "thermal_constant", "full_load_current", "trip_class",
              "extra_json"}
      [] name = "relays_curves" ->
             {"curve_id", "function_id", "family", "type", "standard", "pickup_pu", "pickup_a",
              "time_dial", "min_time_sec", "parametric", "extra_json"}
      [] name = "relays_curve_points" ->
             {"point_id", "curve_id", "base", "multiple", "time_seconds", "amps", "volts"}
      [] name = "relays_parameters" ->
             {"parameter_id", "relay_id", "name", "group_name", "type", "value"}
      [] name = "relays_selectivity" ->
             {"selectivity_id", "function_id", "upstream_device", "downstream_device",
              "element", "coordination_margin"}

\* a record as pd.read_csv and df.where(pd.notnull(df), None) give it back:
\* None and the empty text are both written as an empty field, read as NaN and
\* turned into None
read_record(row) ==
    [c \in DOMAIN row |-> IF c \in TextColumns /\ row[c] = <<>> THEN None ELSE row[c]]

\* read_csv_safe: the DataFrame of the file and the lines printed; a missing
\* file gives an empty DataFrame and an error line
read_csv_safe(file, name) ==
    IF ~file.exists
    THEN [df |-> <<>>, lines |-> <<log_error("csv_not_found", name)>>]
    ELSE [df |-> [i \in 1..Len(file.rows) |-> read_record(file.rows[i])], lines |-> <<>>]

\* the columns of a DataFrame with rows
Columns(df) == DOMAIN df[1]

\* filter_columns_to_table: the columns of the DataFrame the table has too
filter_columns_to_table(df, name) ==
    IF df = <<>> THEN [df |-> df, lines |-> <<>>]
    ELSE LET common == Columns(df) \cap table_columns(name)
         IN  IF common = {}
             THEN [df |-> <<>>, lines |-> <<log_error("no_common_column", name)>>]
             ELSE [df |-> [i \in 1..Len(df) |-> [c \in common |-> df[i][c]]],
                   lines |-> IF Columns(df) \ table_columns(name) # {}
                             THEN <<log_info("extra_columns_ignored", name)>> ELSE <<>>]

\* the value a record gives the conflict column (NULL when it lacks the column)
KeyIn(record, name) ==
    IF pk_map(name) \in DOMAIN record THEN record[pk_map(name)] ELSE None

\* INSERT ... ON CONFLICT (pk) DO NOTHING: the records are appended in order, a
\* record whose key the table already holds is skipped
RECURSIVE on_conflict_do_nothing(_, _, _, _)
on_conflict_do_nothing(rows, records, name, i) ==
    IF i > Len(records) THEN rows
    ELSE on_conflict_do_nothing(
             IF \E j \in 1..Len(rows) : KeyIn(rows[j], name) = KeyIn(records[i], name)
             THEN rows ELSE Append(rows, records[i]),
             records, name, i + 1)

\* the database refuses the statement: one of the refusals of the run, or a
\* record without a value for the primary key column
refuses(records, name, refused) ==
    refused \/ \E i \in 1..Len(records) : KeyIn(records[i], name) = None

\* an INSERT without the conflict clause, into a table without a unique index
upsert_dataframe_without_conflict_clause(rows, df, name, refused) ==
    IF df = <<>> THEN [rows |-> rows, lines |-> <<log_info("nothing_to_insert", name)>>]
    ELSE IF refuses(df, name, refused)
         THEN [rows |-> rows, lines |-> <<log_error("insert_failed", name)>>]
         ELSE [rows |-> rows \o df, lines |-> <<log_ok("rows_loaded", name)>>]

\* an INSERT outside a transaction: the records before the refusal stay inserted
upsert_dataframe_without_transaction(rows, df, name, refused) ==
    IF df = <<>> THEN [rows |-> rows, lines |-> <<log_info("nothing_to_insert", name)>>]
    ELSE IF refuses(df, name, refused)
         THEN [rows |-> on_conflict_do_nothing(rows, <<df[1]>>, name, 1),
               lines |-> <<log_error("insert_failed", name)>>]
         ELSE [rows |-> on_conflict_do_nothing(rows, df, name, 1),
               lines |-> <<log_ok("rows_loaded", name)>>]

\* upsert_dataframe: one INSERT of all the records inside one transaction
\* (engine.begin()); a refused statement is rolled back and reported
upsert_dataframe(rows, df, name, refused) ==
    IF df = <<>> THEN [rows |-> rows, lines |-> <<log_info("nothing_to_insert", name)>>]
    ELSE IF refuses(df, name, refused)
         THEN [rows |-> rows, lines |-> <<log_error("insert_failed", name)>>]
         ELSE [rows |-> on_conflict_do_nothing(rows, df, name, 1),
               lines |-> <<log_ok("rows_loaded", name)>>]

\* load_table_from_csv: the rows of the table afterwards and the lines printed
load_table_from_csv(rows, file, name, refused) ==
    LET start == <<log_info("loading", name)>>
        read == read_csv_safe(file, name)
    IN  IF read.df = <<>>
        THEN [rows |-> rows,
              lines |-> start \o read.lines \o <<log_info("csv_empty_or_unreadable", name)>>]
        ELSE LET kept == filter_columns_to_table(read.df, name)
             IN  IF kept.df = <<>>
                 THEN [rows |-> rows,
                       lines |-> start \o kept.lines \o <<log_error("no_valid_data", name)>>]
                 ELSE LET done == upsert_dataframe(rows, kept.df, name, refused)
                      IN  [rows |-> done.rows, lines |-> start \o kept.lines \o done.lines]

MaxLoads == 2

\* run_load_pipeline is called: the schema is reflected
StartLoad ==
    /\ pc \in {"idle", "done"}
    /\ load_at = 0
    /\ runs < MaxLoads
    /\ runs' = runs + 1
    /\ load_at' = 1
    /\ attempted' = <<>>
    /\ snap' = [db |-> db, csv_before |-> snap.csv_now, csv_now |-> csv]
    /\ log' = log \o <<log_info("start", "LOAD"), log_ok("tables_reflected", "LOAD")>>
    /\ UNCHANGED <<xml, relays, pc, pass, counters, tables, csv, prev, sf_arg, sf_ret,
                   db, rejected>>

\* one turn of the loop over TABLE_LOAD_ORDER, and the closing line after the last
LoadTable ==
    /\ load_at \in 1..Len(TABLE_LOAD_ORDER)
    /\ LET name == TABLE_LOAD_ORDER[load_at]
           last == load_at = Len(TABLE_LOAD_ORDER)
           r == load_table_from_csv(db[name], csv[name], name, name \in rejected)
       IN  /\ db' = [db EXCEPT ![name] = r.rows]
           /\ attempted' = Append(attempted, name)
           /\ load_at' = IF last THEN 0 ELSE load_at + 1
           /\ log' = log \o r.lines \o (IF last THEN <<log_ok("finished", "LOAD")>> ELSE <<>>)
    /\ UNCHANGED <<xml, relays, pc, pass, counters, tables, csv, prev, sf_arg, sf_ret,
                   runs, rejected, snap>>

\* one relay with an identifier, over the bodies that hold transformers with
\* identifiers of their own or a list of functions
LoadDocs ==
    { Document(relay) :
        relay \in { n \in RelayNodes :
                      /\ A(n, "@id") # None
                      /\ \/ Has(n, "CTs") /\ Has(C(n, "VTs"), "VT")
                         \/ Has(n, "ProtectionFunctions")
                            /\ C(C(n, "ProtectionFunctions"), "Function").t = "list" } }

\* the input file is replaced by another document before the next pass
ReplaceDocument ==
    /\ pc = "done"
    /\ load_at = 0
    /\ pass < MaxPasses
    /\ xml' \in LoadDocs \ {xml}
    /\ UNCHANGED <<relays, pc, pass, counters, tables, csv, prev, sf_arg, sf_ret, log>>
    /\ UNCHANGED loadvars

\* files left in output/norm_csv by someone else: one without data rows and one
\* whose columns are not those of its table
ForeignFiles ==
    [NoFiles EXCEPT !["relays_core"] = File(<<>>),
                    !["relays_cts"] = File(<<[note |-> Tabc]>>)]

\* a database that already holds a relay R1, of manufacturer abc
LoadedBefore ==
    [NoTables EXCEPT !["relays_core"] =
        <<[relay_id |-> R1, manufacturer |-> Tabc, model |-> None, frequency_hz |-> FNone]>>]

InitLoad ==
    /\ xml \in LoadDocs
    /\ relays = <<>>
    /\ pc = "idle"
    /\ pass = 0
    /\ counters = ZeroCounters
    /\ tables = NoTables
    /\ csv \in {NoFiles, ForeignFiles}
    /\ prev = NoTables
    /\ sf_arg = PyNone
    /\ sf_ret = FNone
    /\ log = <<>>
    /\ db \in {NoTables, LoadedBefore}
    /\ load_at = 0
    /\ runs = 0
    /\ rejected \in SUBSET {"relays_functions"}
    /\ attempted = <<>>
    /\ snap = NoSnap

NextLoad ==
    \/ StartPass
    \/ NormalizeRelaysCore
    \/ NormalizeCts
    \/ NormalizeVts
    \/ NormalizeFunctions
    \/ NormalizeFunctionSettings
    \/ NormalizeFunctionCurves
    \/ NormalizeCurvePoints
    \/ NormalizeParameters
    \/ NormalizeSelectivity
    \/ ReplaceDocument
    \/ StartLoad
    \/ LoadTable

SpecLoad == InitLoad /\ [][NextLoad]_vars

\* a load run has finished
Loaded == runs >= 1 /\ load_at = 0

\* the keys of the rows of a database table, in order
KeysOf(rows, name) == [i \in 1..Len(rows) |-> KeyIn(rows[i], name)]

\* rows begins with the rows of before, unchanged
KeepsRows(before, rows) ==
    Len(before) <= Len(rows) /\ \A i \in 1..Len(before) : rows[i] = before[i]

\* C23: a load run over the files of the run before it leaves every database
\* table as that run left it; no run changes a row a table already holds, and
\* no table holds a key twice
C23_LoadIdempotent ==
    /\ (Loaded /\ runs >= 2 /\ snap.csv_now = snap.csv_before) => db = snap.db
    /\ \A i \in 1..Len(TABLE_LOAD_ORDER) :
           LET name == TABLE_LOAD_ORDER[i]
           IN  /\ KeepsRows(snap.db[name], db[name])
               /\ \A j, k \in 1..Len(db[name]) :
                      KeyIn(db[name][j], name) = KeyIn(db[name][k], name) => j = k

\* C23's case: the second run over the same files, one of them holding relay R1
\* that the database held before with another manufacturer, has ended; the row
\* of before is the only one of its table, and the parameters were inserted
C23_Witness ==
    /\ Loaded /\ runs = 2 /\ snap.csv_now = snap.csv_before
    /\ csv["relays_core"].rows # <<>>
    /\ csv["relays_core"].rows[1].relay_id = R1
    /\ db["relays_core"] = LoadedBefore["relays_core"]
    /\ csv["relays_core"].rows[1] # db["relays_core"][1]
    /\ Len(db["relays_parameters"]) = 2

\* the tables whose rows the rows of a table refer to
Parents(name) ==
    CASE name = "relays_core" -> {}
      [] name \in {"relays_function_settings", "relays_curves", "relays_selectivity"} ->
             {"relays_core", "relays_functions"}
      [] name = "relays_curve_points" -> {"relays_core", "relays_functions", "relays_curves"}
      [] OTHER -> {"relays_core"}

\* C24: in a load run, a table is loaded only after the load of each of its
\* parents was attempted: relays_core before every other table,
\* relays_functions before settings, curves and selectivity, relays_curves
\* before relays_curve_points
C24_ParentsLoadedFirst ==
    /\ \A i \in 1..Len(attempted) :
           \A p \in Parents(attempted[i]) : \E j \in 1..(i - 1) : attempted[j] = p
    /\ load_at # 0 =>
           /\ Len(attempted) = load_at - 1
           /\ \A p \in Parents(TABLE_LOAD_ORDER[load_at]) :
                  \E j \in 1..Len(attempted) : attempted[j] = p

\* C24's case: a run has attempted the nine tables and loaded curves and points
C24_Witness ==
    /\ Loaded
    /\ Len(attempted) = 9
    /\ db["relays_curves"] # <<>>
    /\ db["relays_curve_points"] # <<>>

\* the load of table name cannot succeed: its file is missing, holds no row or
\* shares no column with the table, or the database refuses the statement
CannotLoad(name) ==
    \/ ~csv[name].exists
    \/ csv[name].rows = <<>>
    \/ Columns(csv[name].rows) \cap table_columns(name) = {}
    \/ name \in rejected
    \/ \E i \in 1..Len(csv[name].rows) : KeyIn(read_record(csv[name].rows[i]), name) = None

\* the step printed a line that tells the failure of table name
Reported(name) ==
    \E k \in (Len(log) + 1)..Len(log') :
        /\ log'[k].about = name
        /\ log'[k].level = "ERROR" \/ log'[k].event = "csv_empty_or_unreadable"

\* the step is the load of the table at load_at: it changes no other table;
\* it inserts every record of the file or none; when the load cannot succeed
\* the table is unchanged and the failure reported; and the loop goes on
C25_Step ==
    load_at # 0 =>
        LET name == TABLE_LOAD_ORDER[load_at]
        IN  /\ \A i \in 1..Len(TABLE_LOAD_ORDER) :
                   TABLE_LOAD_ORDER[i] # name =>
                       db'[TABLE_LOAD_ORDER[i]] = db[TABLE_LOAD_ORDER[i]]
            /\ \/ db'[name] = db[name]
               \/ \A i \in 1..Len(csv[name].rows) :
                      \E j \in 1..Len(db'[name]) :
                          KeyIn(db'[name][j], name) = KeyIn(csv[name].rows[i], name)
            /\ CannotLoad(name) => db'[name] = db[name] /\ Reported(name)
            /\ attempted' = Append(attempted, name)
            /\ load_at' = IF load_at = Len(TABLE_LOAD_ORDER) THEN 0 ELSE load_at + 1

\* C25: each table is loaded entirely or not at all: when the insert fails or
\* the file is missing, empty or shares no column with the table, the table is
\* left unchanged, the failure is reported and the tables after it, its
\* children among them, are still loaded
C25_TableLoadAllOrNothing == [][C25_Step]_vars

\* C25's case: the run has ended; the database refused the functions, whose
\* table is empty; the file of the current transformers has foreign columns and
\* the file of the voltage transformers is missing; the curves were inserted
C25_Witness ==
    /\ Loaded
    /\ Len(attempted) = 9
    /\ "relays_functions" \in rejected
    /\ csv["relays_functions"].rows # <<>>
    /\ db["relays_functions"] = <<>>
    /\ csv["relays_cts"] = ForeignFiles["relays_cts"]
    /\ db["relays_cts"] = <<>>
    /\ ~csv["relays_vts"].exists
    /\ db["relays_curves"] # <<>>
    /\ \E k \in 1..Len(log) : log[k] = log_error("insert_failed", "relays_functions")
    /\ \E k \in 1..Len(log) : log[k] = log_error("no_valid_data", "relays_cts")
    /\ \E k \in 1..Len(log) : log[k] = log_error("csv_not_found", "relays_vts")

\* the step builds and saves the table at pc: a table without rows leaves every
\* file as it was, a table with rows replaces its own file and no other
C26_Step ==
    (pc \in DOMAIN tables /\ pc' \notin {pc, "raised"}) =>
        IF tables'[pc] = <<>>
        THEN csv' = csv
        ELSE csv' = [csv EXCEPT ![pc] = File(tables'[pc])]

\* C26: saving a table without rows writes no file and neither truncates nor
\* removes the file of that name, which keeps the rows of an earlier pass
C26_EmptyTableKeepsFile == [][C26_Step]_vars

\* C26's case: the second pass, over a document of transformers, built no curve
\* and no function; the files still hold those of the first pass, over another
\* document with another relay, and the one load run, after the second pass,
\* inserted them beside the relay and the transformers of the second document
C26_Witness ==
    /\ pc = "done" /\ pass = 2
    /\ Loaded /\ runs = 1
    /\ tables["relays_curves"] = <<>> /\ tables["relays_functions"] = <<>>
    /\ prev["relays_curves"] # <<>>
    /\ csv["relays_curves"] = File(prev["relays_curves"])
    /\ Len(db["relays_curves"]) = Len(prev["relays_curves"])
    /\ tables["relays_vts"] # <<>>
    /\ Len(db["relays_vts"]) = Len(tables["relays_vts"])
    /\ Len(db["relays_core"]) = 1
    /\ Len(db["relays_functions"]) >= 1
    /\ db["relays_functions"][1].relay_id # db["relays_core"][1].relay_id

CanonicalColumns ==
    { "pickup_pu", "pickup_a", "time_dial", "min_time_seconds", "thermal_constant",
      "full_load_current", "trip_class" }

\* the names that feed a canonical column
Synonyms(col) ==
    CASE col = "pickup_pu" -> PickupPuNames
      [] col = "pickup_a" -> PickupANames
      [] col = "time_dial" -> TimeDialNames
      [] col = "min_time_seconds" -> MinTimeNames
      [] col = "thermal_constant" -> ThermalConstantNames
      [] col = "full_load_current" -> FullLoadCurrentNames
      [] col = "trip_class" -> TripClassNames

\* the values of the attributes of a parameter block, in order; the text of a
\* child that is no block
AttributeValues(node) ==
    IF node.t = "odict"
    THEN LET attrs == SelectSeq(node.items, LAMBDA it : it.k # <<>> /\ Head(it.k) = "@")
         IN  [k \in 1..Len(attrs) |-> attrs[k].v.s]
    ELSE <<NodeStr(node)>>

\* the values of all the attributes of all the children of a Settings block
\* whose lower-cased name feeds the column, in document order
MatchingValues(settings, col) ==
    Flatten([i \in 1..Len(settings.items) |->
                IF settings.items[i].k # CurveKey /\ Lower(settings.items[i].k) \in Synonyms(col)
                THEN AttributeValues(settings.items[i].v) ELSE <<>>])

\* C27: a canonical column of a settings row holds the coercion of the last
\* attribute among all the attributes of all the parameter blocks whose
\* lower-cased name is one of the column's names, and nothing without one
C27_LastAttributeWins ==
    Built("relays_function_settings") =>
        LET with == SelectSeq(AllFunctions(relays, 1), HasRawTriple)
            rows == tables["relays_function_settings"]
        IN  /\ Len(rows) = Len(with)
            /\ \A i \in 1..Len(with) : \A col \in CanonicalColumns :
                   LET values == MatchingValues(C(with[i].func, "Settings"), col)
                   IN  rows[i][col] = IF values = <<>> THEN FNone
                                      ELSE safe_float(PyStr(values[Len(values)]))

\* C27's case: a Settings block whose time_dial block gives the value 5 and
\* whose TimeDial block after it gives the value 1.5 and then the unit s: the
\* row keeps the three attributes and holds no time dial
C27_Witness ==
    /\ pc = "done"
    /\ Len(tables["relays_function_settings"]) = 1
    /\ tables["relays_function_settings"][1].time_dial = FNone
    /\ tables["relays_function_settings"][1].extra_json =
           << Item(<<"t", "i", "m", "e", "_", "d", "i", "a", "l", ".", "v", "a", "l", "u", "e">>,
                   T5),
              Item(<<"T", "i", "m", "e", "D", "i", "a", "l", ".", "v", "a", "l", "u", "e">>,
                   T1p5),
              Item(<<"T", "i", "m", "e", "D", "i", "a", "l", ".", "u", "n", "i", "t">>,
                   <<"s">>) >>

\* no two elements of a sequence of identifiers are equal
Distinct(ids) == \A i, j \in 1..Len(ids) : ids[i] = ids[j] => i = j

\* the relay ids are non-empty and pairwise distinct, the function ids non-empty
\* and distinct within each relay, and no CT, curve or parameter carries an @id
NoNaturalIds ==
    /\ \A i \in 1..Len(relays) : Truthy(A(relays[i], "@id"))
    /\ Distinct([i \in 1..Len(relays) |-> A(relays[i], "@id")])
    /\ \A i \in 1..Len(relays) :
           LET fs == FunctionsOf(relays[i])
           IN  /\ \A j \in 1..Len(fs) : Truthy(A(fs[j], "@id"))
               /\ Distinct([j \in 1..Len(fs) |-> A(fs[j], "@id")])
    /\ \A name \in {"relays_cts", "relays_curves", "relays_parameters"} :
           \A k \in 1..Len(ExpectedNodes(name)) : ~Has(ExpectedNodes(name)[k], "@id")

SyntheticKeyTables ==
    { "relays_cts", "relays_function_settings", "relays_curves", "relays_parameters",
      "relays_selectivity" }

\* no two rows of the table built by the running pass carry the same key
KeysDistinct(name) ==
    Distinct([i \in 1..Len(tables[name]) |-> PrimaryKey(name, tables[name][i])])

\* C28: over a relay list with non-empty, pairwise distinct relay ids, function
\* ids non-empty and distinct within each relay and no natural id, no two rows
\* of the CT, FunctionSetting, Curve, Parameter or Selectivity table carry the
\* same key, whatever characters the relay and function ids hold
C28_SyntheticKeysInjective ==
    \A name \in SyntheticKeyTables :
        (pc = "done" /\ NoNaturalIds) => KeysDistinct(name)

====
